---- MODULE Spec2Model ----
(***************************************************************************)
(* Looping-strategy simulator: the simulation engine (src/core/looping.ts), *)
(* the constant-product pool model, the risk checks, the rate limiter, the  *)
(* idempotency cache and the simulateLooping entrypoint handler.            *)
(*                                                                          *)
(* Numbers.  bignumber.js values (and the JS numbers that flow into them)   *)
(* are modelled as exact rationals extended with the three non-finite       *)
(* values a BigNumber can hold: [k |-> "fin", n, d] with d > 0 and          *)
(* gcd(n, d) = 1, or k in {"inf", "ninf", "nan"} with n = 0, d = 1.         *)
(* bignumber.js multiplies, adds and subtracts exactly and rounds a         *)
(* quotient to 20 decimal places; the model keeps quotients exact.          *)
(***************************************************************************)
EXTENDS Integers, Sequences, FiniteSets, TLC

(***************************************************************************)
(* Bounds of the model.                                                     *)
(***************************************************************************)
\* number of requests the handler model serves
NumReq == 2
\* last instant of the model clock (abstract milliseconds)
MaxNow == 3
\* length of the rate-limit window, in clock units (RATE_LIMIT_WINDOW_MS)
windowMs == 2
\* requests allowed per window (RATE_LIMIT_MAX, 30 by default)
maxRequests == 2
\* time-to-live of an idempotency entry, in clock units (IDEMPOTENCY_TTL_MS)
ttlMs == 2
\* decimal scale bigToNumber rounds to (10^12 in the source)
FixedDp == 3
\* largest loop count of a direct engine call
MaxLoops == 3
\* largest loop count of a direct engine call that trades against a pool with
\* liquidity: the exact fractions of a further constant-product swap do not
\* fit the model checker's integers
MaxPoolLoops == 2

(***************************************************************************)
(* Program constants.                                                       *)
(***************************************************************************)
DEFAULT_MAX_LOOPS == 10
BPS_DENOMINATOR == 10000

(***************************************************************************)
(* Extended rational arithmetic (bignumber.js).                             *)
(***************************************************************************)
Abs(x) == IF x < 0 THEN -x ELSE x

RECURSIVE GCD(_, _)
GCD(a, b) == IF b = 0 THEN a ELSE GCD(b, a % b)

Fin(n, d) ==
  LET s == IF d < 0 THEN -1 ELSE 1
      g == GCD(Abs(n), Abs(d))
  IN  [k |-> "fin", n |-> (s * n) \div g, d |-> (s * d) \div g]

Int2Num(n) == [k |-> "fin", n |-> n, d |-> 1]
NaN == [k |-> "nan", n |-> 0, d |-> 1]
PInf == [k |-> "inf", n |-> 0, d |-> 1]
NInf == [k |-> "ninf", n |-> 0, d |-> 1]
Zero == Int2Num(0)
One == Int2Num(1)

\* -1, 0 or 1; NaN has no sign (0 here, and every caller tests NaN first)
Sign(x) ==
  CASE x.k = "inf" -> 1
    [] x.k = "ninf" -> -1
    [] x.k = "nan" -> 0
    [] OTHER -> IF x.n > 0 THEN 1 ELSE IF x.n < 0 THEN -1 ELSE 0

SignedInf(s) == IF s < 0 THEN NInf ELSE PInf

IsNaN(x) == x.k = "nan"
IsFinite(x) == x.k = "fin"
IsZero(x) == x.k = "fin" /\ x.n = 0
IsNegative(x) == Sign(x) < 0

Negated(x) ==
  CASE x.k = "fin" -> [x EXCEPT !.n = -x.n]
    [] x.k = "inf" -> NInf
    [] x.k = "ninf" -> PInf
    [] OTHER -> NaN

Plus(x, y) ==
  CASE IsNaN(x) \/ IsNaN(y) -> NaN
    [] ~IsFinite(x) /\ ~IsFinite(y) -> IF x.k = y.k THEN x ELSE NaN
    [] ~IsFinite(x) -> x
    [] ~IsFinite(y) -> y
    [] OTHER ->
         LET g == GCD(x.d, y.d)
         IN  Fin(x.n * (y.d \div g) + y.n * (x.d \div g), (x.d \div g) * y.d)

Minus(x, y) == Plus(x, Negated(y))

\* (a/b) * (c/e), cancelling across before multiplying
FinTimes(a, b, c, e) ==
  LET g1 == GCD(Abs(a), Abs(e))
      g2 == GCD(Abs(c), Abs(b))
      h1 == IF g1 = 0 THEN 1 ELSE g1
      h2 == IF g2 = 0 THEN 1 ELSE g2
  IN  Fin((a \div h1) * (c \div h2), (b \div h2) * (e \div h1))

MultipliedBy(x, y) ==
  CASE IsNaN(x) \/ IsNaN(y) -> NaN
    [] ~IsFinite(x) \/ ~IsFinite(y) ->
         IF IsZero(x) \/ IsZero(y) THEN NaN ELSE SignedInf(Sign(x) * Sign(y))
    [] OTHER -> FinTimes(x.n, x.d, y.n, y.d)

DividedBy(x, y) ==
  CASE IsNaN(x) \/ IsNaN(y) -> NaN
    [] ~IsFinite(x) /\ ~IsFinite(y) -> NaN
    [] ~IsFinite(x) -> SignedInf(Sign(x) * (IF Sign(y) < 0 THEN -1 ELSE 1))
    [] ~IsFinite(y) -> Zero
    [] IsZero(y) -> IF IsZero(x) THEN NaN ELSE SignedInf(Sign(x))
    [] OTHER -> FinTimes(x.n, x.d, y.d, y.n)

\* comparisons: every comparison with NaN is false
Lt(x, y) ==
  CASE IsNaN(x) \/ IsNaN(y) -> FALSE
    [] x.k = "ninf" -> y.k # "ninf"
    [] x.k = "inf" -> FALSE
    [] y.k = "inf" -> TRUE
    [] y.k = "ninf" -> FALSE
    [] OTHER ->
         LET g == GCD(x.d, y.d)
         IN  x.n * (y.d \div g) < y.n * (x.d \div g)

Eq(x, y) == ~IsNaN(x) /\ ~IsNaN(y) /\ x = y
Lte(x, y) == Lt(x, y) \/ Eq(x, y)
Gt(x, y) == Lt(y, x)
Gte(x, y) == Lte(y, x)

IsNum(x) ==
  /\ x.k \in {"fin", "inf", "ninf", "nan"}
  /\ x.n \in Int
  /\ x.d \in Nat \ {0}

(***************************************************************************)
(* Optional values: <<>> is undefined, <<v>> is the value v.                *)
(***************************************************************************)
None == <<>>
Some(v) == <<v>>
IsSome(o) == Len(o) = 1
Get(o) == o[1]

(***************************************************************************)
(* Small helpers of src/core/looping.ts.                                    *)
(***************************************************************************)
SECONDS_PER_YEAR == 31536000
SECONDS_PER_DAY == 86400

\* resolvePrice: the price map is a record over PriceKeys of optional numbers
PriceKeys == {"WETH", "WETHUSD", "USDC", "USDCUSD"}

resolvePrice(symbol, priceMap, fallback) ==
  LET usdKey == IF symbol = "WETH" THEN "WETHUSD" ELSE "USDCUSD"
  IN  IF IsSome(priceMap[symbol]) THEN Get(priceMap[symbol])
      ELSE IF IsSome(priceMap[usdKey]) THEN Get(priceMap[usdKey])
      ELSE fallback

\* Math.exp is modelled by its first-order expansion 1 + x, which is exact at
\* 0 and strictly increasing like exp
Exp(x) == Plus(One, x)

\* interest that has already accrued for a day at day 0
expAprNextDay(amount, apr, days) ==
  IF IsZero(apr)
  THEN amount
  ELSE LET exponent == DividedBy(
                         MultipliedBy(MultipliedBy(apr, Int2Num(days + 1)),
                                      Int2Num(SECONDS_PER_DAY)),
                         Int2Num(SECONDS_PER_YEAR))
       IN  MultipliedBy(amount, Exp(exponent))

expApr(amount, apr, days) ==
  IF IsZero(apr) \/ days = 0
  THEN amount
  ELSE LET exponent == DividedBy(
                         MultipliedBy(MultipliedBy(apr, Int2Num(days)),
                                      Int2Num(SECONDS_PER_DAY)),
                         Int2Num(SECONDS_PER_YEAR))
       IN  MultipliedBy(amount, Exp(exponent))

bigMax(value) == IF IsNegative(value) THEN Zero ELSE value

\* the first dp decimal digits of rest / d (0 <= rest < d) and what remains
RECURSIVE fixedDigits(_, _, _)
fixedDigits(rest, d, dp) ==
  IF dp = 0 THEN [q |-> 0, rest |-> rest]
  ELSE LET prev == fixedDigits(rest, d, dp - 1)
       IN  [q |-> prev.q * 10 + (prev.rest * 10) \div d,
            rest |-> (prev.rest * 10) % d]

RECURSIVE Pow10(_)
Pow10(n) == IF n = 0 THEN 1 ELSE 10 * Pow10(n - 1)

\* value.toFixed(dp, ROUND_HALF_UP) read back as a number: halves round away
\* from zero; NaN and the infinities print as such and read back unchanged
bigToNumber(value) ==
  IF ~IsFinite(value) THEN value
  ELSE LET a == Abs(value.n)
           whole == a \div value.d
           digits == fixedDigits(a % value.d, value.d, FixedDp)
           q == whole * Pow10(FixedDp) + digits.q
                  + (IF 2 * digits.rest >= value.d THEN 1 ELSE 0)
       IN  Fin(Sign(value) * q, Pow10(FixedDp))

computeLiquidationPrice(collateralAmount, debtAmount, debtPriceUsd, lltv) ==
  IF IsZero(collateralAmount) \/ IsZero(lltv) THEN PInf
  ELSE LET numerator == MultipliedBy(debtAmount, debtPriceUsd)
           denom == MultipliedBy(collateralAmount, lltv)
       IN  IF IsZero(denom) THEN PInf ELSE DividedBy(numerator, denom)

(***************************************************************************)
(* Oracle-lag model, src/models/oracle.ts.  config is an optional lag.      *)
(***************************************************************************)
resolveOraclePriceLive(spotPrice, timestamp, config, state) ==
  [price |-> spotPrice,
   state |-> [lastPrice |-> spotPrice, lastUpdateTimestamp |-> timestamp]]

resolveOraclePrice(spotPrice, timestamp, config, state) ==
  IF ~IsSome(config)
  THEN [price |-> spotPrice,
        state |-> [lastPrice |-> spotPrice, lastUpdateTimestamp |-> timestamp]]
  ELSE LET lagSeconds == Get(config)
           elapsed == timestamp - state.lastUpdateTimestamp
       IN  IF elapsed < lagSeconds
           THEN [price |-> state.lastPrice, state |-> state]
           ELSE [price |-> spotPrice,
                 state |-> [lastPrice |-> spotPrice,
                            lastUpdateTimestamp |-> timestamp]]

(***************************************************************************)
(* Constant-product pool model (amm_xyk).  A throw is the record            *)
(* [err |-> message]; a returned quote has err = "".                        *)
(***************************************************************************)
\* the amount that trades after the fee
amountInAfterFeeOf(amountIn, feeBps) ==
  LET feeFraction == DividedBy(Int2Num(feeBps), Int2Num(BPS_DENOMINATOR))
  IN  MultipliedBy(amountIn, Minus(One, feeFraction))

\* the priceImpactPct field of a quote that trades (lines 44-59); no caller in
\* the repository reads it, so it is kept apart from the rest of the quote
priceImpactPctOf(amountIn, reserveIn, reserveOut, feeBps) ==
  LET amountInAfterFee == amountInAfterFeeOf(amountIn, feeBps)
      denominator == Plus(reserveIn, amountInAfterFee)
      amountOut == DividedBy(MultipliedBy(amountInAfterFee, reserveOut),
                             denominator)
      initialPrice == IF IsZero(reserveIn) THEN Zero
                      ELSE DividedBy(reserveOut, reserveIn)
      finalPrice == IF IsZero(denominator) THEN Zero
                    ELSE DividedBy(Minus(reserveOut, amountOut), denominator)
  IN  IF IsZero(amountInAfterFee) \/ IsZero(initialPrice) THEN Zero
      ELSE MultipliedBy(
             DividedBy(Minus(initialPrice, finalPrice), initialPrice),
             Int2Num(100))

\* a constant-product quote that trades the whole amount and only reports
\* the fee
getConstantProductQuoteFeeOnTop(amountIn, reserveIn, reserveOut, feeBps) ==
  IF IsNegative(amountIn)
  THEN [err |-> "amountIn must be non-negative",
        amountOut |-> Zero, feePaid |-> Zero]
  ELSE IF Lte(reserveIn, Zero) \/ Lte(reserveOut, Zero)
  THEN [err |-> "reserves must be positive",
        amountOut |-> Zero, feePaid |-> Zero]
  ELSE
    LET amountInAfterFee == amountInAfterFeeOf(amountIn, feeBps)
    IN  IF IsZero(amountInAfterFee)
        THEN [err |-> "", amountOut |-> Zero, feePaid |-> amountIn]
        ELSE
          LET numerator == MultipliedBy(amountIn, reserveOut)
              denominator == Plus(reserveIn, amountIn)
          IN  [err |-> "", amountOut |-> DividedBy(numerator, denominator),
               feePaid |-> Minus(amountIn, amountInAfterFee)]

\* the thrown error, or amountOut and feePaid of the returned quote
\* a quote at the pool's spot price, with no price impact
getConstantProductQuoteAtSpot(amountIn, reserveIn, reserveOut, feeBps) ==
  IF IsNegative(amountIn)
  THEN [err |-> "amountIn must be non-negative",
        amountOut |-> Zero, feePaid |-> Zero]
  ELSE IF Lte(reserveIn, Zero) \/ Lte(reserveOut, Zero)
  THEN [err |-> "reserves must be positive",
        amountOut |-> Zero, feePaid |-> Zero]
  ELSE
    LET amountInAfterFee == amountInAfterFeeOf(amountIn, feeBps)
    IN  IF IsZero(amountInAfterFee)
        THEN [err |-> "", amountOut |-> Zero, feePaid |-> amountIn]
        ELSE [err |-> "",
              amountOut |-> DividedBy(MultipliedBy(amountInAfterFee, reserveOut),
                                      reserveIn),
              feePaid |-> Minus(amountIn, amountInAfterFee)]

getConstantProductQuote(amountIn, reserveIn, reserveOut, feeBps) ==
  IF IsNegative(amountIn)
  THEN [err |-> "amountIn must be non-negative",
        amountOut |-> Zero, feePaid |-> Zero]
  ELSE IF Lte(reserveIn, Zero) \/ Lte(reserveOut, Zero)
  THEN [err |-> "reserves must be positive",
        amountOut |-> Zero, feePaid |-> Zero]
  ELSE
    LET amountInAfterFee == amountInAfterFeeOf(amountIn, feeBps)
    IN  IF IsZero(amountInAfterFee)
        THEN [err |-> "", amountOut |-> Zero, feePaid |-> amountIn]
        ELSE
          LET numerator == MultipliedBy(amountInAfterFee, reserveOut)
              denominator == Plus(reserveIn, amountInAfterFee)
          IN  [err |-> "", amountOut |-> DividedBy(numerator, denominator),
               feePaid |-> Minus(amountIn, amountInAfterFee)]

(***************************************************************************)
(* Risk checks (risk/canExecute).  Reasons are kept as tagged tuples in the *)
(* order the code pushes them.                                              *)
(***************************************************************************)
\* input.loops and maxLoops are numbers like target_ltv: nothing in the
\* function makes them integers
preSimulationRiskCheck(input, market, maxLoops) ==
  LET r1 == IF Lte(input.target_ltv, Zero)
            THEN << <<"target_ltv must be positive">> >> ELSE <<>>
      r2 == IF Gte(input.target_ltv, market.lltv)
            THEN << <<"target_ltv violates market LLTV",
                      input.target_ltv, market.lltv>> >>
            ELSE <<>>
      r3 == IF ~IsFinite(input.loops) \/ Lte(input.loops, Zero)
            THEN << <<"loops must be a positive integer">> >>
            ELSE IF Gt(input.loops, maxLoops)
            THEN << <<"loops exceeds policy maximum", input.loops, maxLoops>> >>
            ELSE <<>>
      reasons == r1 \o r2 \o r3
  IN  [ok |-> Len(reasons) = 0, reasons |-> reasons]

postSimulationRiskCheckFirstOnly(payload) ==
  LET r1 == IF IsSome(payload.minHealthFactor)
               /\ Lt(payload.healthFactor, Get(payload.minHealthFactor))
            THEN << <<"final health factor is below minimum",
                      payload.healthFactor, Get(payload.minHealthFactor)>> >>
            ELSE <<>>
      r2 == IF IsSome(payload.maxLeverage)
               /\ Gt(payload.grossLeverage, Get(payload.maxLeverage))
            THEN << <<"gross leverage exceeds maximum",
                      payload.grossLeverage, Get(payload.maxLeverage)>> >>
            ELSE <<>>
      reasons == IF Len(r1) > 0 THEN r1 ELSE r2
  IN  [ok |-> Len(reasons) = 0, reasons |-> reasons]

\* payload: healthFactor, grossLeverage numbers; minHealthFactor, maxLeverage
\* optional numbers
postSimulationRiskCheck(payload) ==
  LET r1 == IF IsSome(payload.minHealthFactor)
               /\ Lt(payload.healthFactor, Get(payload.minHealthFactor))
            THEN << <<"final health factor is below minimum",
                      payload.healthFactor, Get(payload.minHealthFactor)>> >>
            ELSE <<>>
      r2 == IF IsSome(payload.maxLeverage)
               /\ Gt(payload.grossLeverage, Get(payload.maxLeverage))
            THEN << <<"gross leverage exceeds maximum",
                      payload.grossLeverage, Get(payload.maxLeverage)>> >>
            ELSE <<>>
      reasons == r1 \o r2
  IN  [ok |-> Len(reasons) = 0, reasons |-> reasons]

(***************************************************************************)
(* Time series and stress scenarios, src/core/looping.ts.                   *)
(***************************************************************************)
\* a health factor that divides whatever the debt is
hfOfUnguarded(collateralValueUsd, debtValueUsd, lltv) ==
  DividedBy(MultipliedBy(collateralValueUsd, lltv), debtValueUsd)

hfOf(collateralValueUsd, debtValueUsd, lltv) ==
  IF IsZero(debtValueUsd) THEN PInf
  ELSE DividedBy(MultipliedBy(collateralValueUsd, lltv), debtValueUsd)

\* the loop at lines 142-174 over the days lo .. hi, entered with the oracle
\* state the day before left: the points pushed and the oracle state after
\* them; a range of several days is walked as its first half and then its
\* second half
RECURSIVE seriesFrom(_, _, _, _)
seriesFrom(p, lo, hi, oracleState) ==
  IF lo > hi THEN [points |-> <<>>, state |-> oracleState]
  ELSE IF lo = hi
  THEN
    LET day == lo
        timestamp == day * SECONDS_PER_DAY
        \* oracleLagSeconds ? {lagSeconds} : undefined -- a lag of 0 is falsy
        config == IF IsSome(p.oracleLagSeconds) /\ Get(p.oracleLagSeconds) # 0
                  THEN p.oracleLagSeconds ELSE None
        point(collateralAtT, debtAtT, collateralValueUsd, debtValueUsd) ==
          [t |-> day,
           collateral |-> bigToNumber(collateralAtT),
           debt |-> bigToNumber(debtAtT),
           equity |-> bigToNumber(Minus(collateralValueUsd, debtValueUsd)),
           hf |-> hfOf(collateralValueUsd, debtValueUsd, p.lltv)]
        valued(collateralAtT, debtAtT, o) ==
          [points |-> <<point(collateralAtT, debtAtT,
                              MultipliedBy(collateralAtT, o.price),
                              MultipliedBy(debtAtT, p.debtPriceUsd))>>,
           state |-> o.state]
    IN  valued(expApr(p.collateralAmount, p.supplyApr, day),
               expApr(p.debtAmount, p.borrowApr, day),
               resolveOraclePrice(p.collateralPriceUsd, timestamp, config,
                                  oracleState))
  ELSE
    LET mid == (lo + hi) \div 2
        first == seriesFrom(p, lo, mid, oracleState)
        second == seriesFrom(p, mid + 1, hi, first.state)
    IN  [points |-> first.points \o second.points, state |-> second.state]

\* a series that stops the day before the horizon
buildTimeSeriesShort(p) ==
  seriesFrom(p, 0, p.horizonDays - 1,
             [lastPrice |-> p.collateralPriceUsd,
              lastUpdateTimestamp |-> 0]).points

\* a series whose oracle starts from a price of zero
buildTimeSeriesStaleSeed(p) ==
  seriesFrom(p, 0, p.horizonDays,
             [lastPrice |-> Zero, lastUpdateTimestamp |-> 0]).points

buildTimeSeries(p) ==
  seriesFrom(p, 0, p.horizonDays,
             [lastPrice |-> p.collateralPriceUsd,
              lastUpdateTimestamp |-> 0]).points

\* a scan that keeps the first loss it estimated
scanStepFirstLoss(acc, hf, collateralValueUsd, debtValueUsd, lltv) ==
  IF Lt(hf, acc.minHf)
  THEN [minHf |-> hf,
        liqLossUsd |->
          IF Lt(hf, One) /\ ~IsSome(acc.liqLossUsd)
          THEN LET shortfall ==
                     Minus(debtValueUsd, MultipliedBy(collateralValueUsd, lltv))
               IN  IF Gt(shortfall, Zero) THEN Some(shortfall) ELSE None
          ELSE acc.liqLossUsd]
  ELSE acc

\* the scan both evaluators share: acc = [minHf, liqLossUsd], one step per
\* point with that point's health factor and USD values
scanStep(acc, hf, collateralValueUsd, debtValueUsd, lltv) ==
  IF Lt(hf, acc.minHf)
  THEN [minHf |-> hf,
        liqLossUsd |->
          IF Lt(hf, One)
          THEN LET shortfall ==
                     Minus(debtValueUsd, MultipliedBy(collateralValueUsd, lltv))
               IN  IF Gt(shortfall, Zero) THEN Some(shortfall) ELSE None
          ELSE acc.liqLossUsd]
  ELSE acc

scanResult(acc) ==
  LET minHf == IF ~IsFinite(acc.minHf) THEN PInf ELSE acc.minHf
  IN  [minHf |-> minHf, liquidated |-> Lt(minHf, One),
       liqLossUsd |-> acc.liqLossUsd]

\* a walk that shocks the price on every day
priceJumpScanEveryDay(p, series, lo, hi, acc) ==
  IF lo > hi THEN acc
  ELSE
    LET shock(point) ==
          LET collateralValueUsd ==
                MultipliedBy(MultipliedBy(point.collateral,
                                          p.collateralPriceUsd),
                             Plus(One, p.shockPct))
              debtValueUsd == MultipliedBy(point.debt, p.debtPriceUsd)
          IN  [hf |-> hfOf(collateralValueUsd, debtValueUsd, p.lltv),
               shortfall |-> Minus(debtValueUsd,
                                   MultipliedBy(collateralValueUsd, p.lltv))]
        shocked == [k \in lo .. hi |-> shock(series[k])]
        lowest == CHOOSE k \in lo .. hi :
                    \A j \in lo .. hi : ~Lt(shocked[j].hf, shocked[k].hf)
    IN  [minHf |-> shocked[lowest].hf,
         liqLossUsd |-> IF Gt(shocked[lowest].shortfall, Zero)
                        THEN Some(shocked[lowest].shortfall) ELSE None]

\* the loop at lines 194-216 over the points lo .. hi of the series, entered
\* with the accumulator acc = [minHf, liqLossUsd]; a range of several points
\* is walked as its first half and then its second half
RECURSIVE priceJumpScan(_, _, _, _, _)
priceJumpScan(p, series, lo, hi, acc) ==
  IF lo > hi THEN acc
  ELSE IF lo = hi
  THEN
    LET point == series[lo]
        priceMultiplier == IF point.t >= p.atDay THEN Plus(One, p.shockPct)
                           ELSE One
        collateralValueUsd ==
          MultipliedBy(MultipliedBy(point.collateral, p.collateralPriceUsd),
                       priceMultiplier)
        debtValueUsd == MultipliedBy(point.debt, p.debtPriceUsd)
        hf == hfOf(collateralValueUsd, debtValueUsd, p.lltv)
    IN  scanStep(acc, hf, collateralValueUsd, debtValueUsd, p.lltv)
  ELSE
    \* the test is there for the evaluator alone: it makes the first half's
    \* accumulator a value before the second half is entered
    LET mid == (lo + hi) \div 2
        first == priceJumpScan(p, series, lo, mid, acc)
    IN  IF first.minHf = first.minHf
        THEN priceJumpScan(p, series, mid + 1, hi, first) ELSE first

runPriceJumpScenario(p) ==
  scanResult(priceJumpScan(p, p.baseSeries, 1, Len(p.baseSeries),
                           [minHf |-> PInf, liqLossUsd |-> None]))

\* the loop at lines 237-249 over the points lo .. hi of the series, walked
\* the same way
RECURSIVE evaluateScan(_, _, _, _, _, _, _)
evaluateScan(series, lltv, collateralPriceUsd, debtPriceUsd, lo, hi, acc) ==
  IF lo > hi THEN acc
  ELSE IF lo = hi
  THEN
    LET point == series[lo]
        collateralValueUsd == MultipliedBy(point.collateral, collateralPriceUsd)
        debtValueUsd == MultipliedBy(point.debt, debtPriceUsd)
    IN  scanStep(acc, point.hf, collateralValueUsd, debtValueUsd, lltv)
  ELSE
    LET mid == (lo + hi) \div 2
        first == evaluateScan(series, lltv, collateralPriceUsd, debtPriceUsd,
                              lo, mid, acc)
    IN  IF first.minHf = first.minHf
        THEN evaluateScan(series, lltv, collateralPriceUsd, debtPriceUsd,
                          mid + 1, hi, first)
        ELSE first

evaluateSeries(series, lltv, collateralPriceUsd, debtPriceUsd) ==
  scanResult(evaluateScan(series, lltv, collateralPriceUsd, debtPriceUsd, 1,
                          Len(series), [minHf |-> PInf, liqLossUsd |-> None]))

(***************************************************************************)
(* State.                                                                   *)
(*   now      the clock Date.now() reads                                    *)
(*   buckets  the rate limiter's Map: key -> optional [count, reset]        *)
(*   cache    the idempotency cache: key -> optional [value, storedAt]      *)
(*   req      the entrypoint handler's invocations, one per request         *)
(*   run      the simulateLooping invocations, one per request slot         *)
(*   grants   per bucket key, the times at which a direct enforceRateLimit  *)
(*            call returned normally (history, not program state)           *)
(*   oracle   an oracle-lag state threaded through resolveOraclePrice calls *)
(*            by a direct caller, with the calls made so far                *)
(*   kyber    the aggregator client (adapters/kyber): its module-level      *)
(*            quote cache, its callers and the upstream requests sent       *)
(*   call     the last direct call of a pure function: its name, arguments  *)
(*            and what it returned                                          *)
(*            or, for a swap provider instance called directly, the pool    *)
(*            spec it was created from, the instance as it is now and the   *)
(*            calls made on it so far                                       *)
(***************************************************************************)
VARIABLES now, buckets, cache, req, run, grants, oracle, kyber, call

vars == <<now, buckets, cache, req, run, grants, oracle, kyber, call>>

Reqs == 1 .. NumReq

\* no oracle state is being threaded
NoOracle ==
  [config |-> None, held |-> Zero,
   state |-> [lastPrice |-> Zero, lastUpdateTimestamp |-> 0], calls |-> <<>>]

\* the aggregator client right after module load: empty cache, no caller
NoKyber == [cache |-> <<>>, callers |-> <<>>, requests |-> 0]

NoCall == [fn |-> "", args |-> <<>>, result |-> <<>>]

SIM_ENGINE_VERSION == "0.2.0"

\* new BigNumber(text) for the start_capital strings of the model
CapitalStrings == {"1", "0.5", "0", "-1", "abc", "Infinity"}

ParseBigNumber(text) ==
  CASE text = "1" -> Fin(1, 1)
    [] text = "0.5" -> Fin(1, 2)
    [] text = "0" -> Zero
    [] text = "-1" -> Fin(-1, 1)
    [] text = "Infinity" -> PInf
    [] OTHER -> NaN


\* integerValue(ROUND_FLOOR)
Floor(x) ==
  IF ~IsFinite(x) THEN x ELSE Int2Num(x.n \div x.d)

(***************************************************************************)
(* Swap providers.  A provider is its closure state:                        *)
(*   kind "amm"   createAmmSwapProvider: feeBps and the two mutable reserves *)
(*   kind "kyber" createKyberSwapProvider: decimals and prices; getQuote is *)
(*                the aggregator, answering any amount of KyberAmounts (in  *)
(*                the collateral's smallest unit) or failing.               *)
(***************************************************************************)
createAmmSwapProvider(feeBps, poolBaseReserve, poolQuoteReserve, collateralPriceUsd, debtPriceUsd) ==
  [kind |-> "amm", feeBps |-> feeBps,
   reserveCollateral |-> poolBaseReserve, reserveDebt |-> poolQuoteReserve,
   collateralPriceUsd |-> collateralPriceUsd, debtPriceUsd |-> debtPriceUsd,
   collateralDecimals |-> 0, debtDecimals |-> 0]

createKyberSwapProvider(collateralPriceUsd, debtPriceUsd, collateralDecimals, debtDecimals) ==
  [kind |-> "kyber", feeBps |-> 0,
   reserveCollateral |-> Zero, reserveDebt |-> Zero,
   collateralPriceUsd |-> collateralPriceUsd, debtPriceUsd |-> debtPriceUsd,
   collateralDecimals |-> collateralDecimals, debtDecimals |-> debtDecimals]

KyberAmounts == {-20, -10, 0, 10}

NoQuote ==
  [err |-> "", amountOutCollateral |-> Zero, feesUsd |-> Zero,
   route |-> None, provenance |-> None]

\* the body of the constant-product provider: the quote it resolves (or the
\* error it rejects with) and the provider state it leaves
ammProviderCall(provider, amountInDebt) ==
  LET quote == getConstantProductQuote(amountInDebt, provider.reserveDebt,
                                       provider.reserveCollateral,
                                       provider.feeBps)
  IN  IF quote.err # ""
      THEN [provider |-> provider, quote |-> [NoQuote EXCEPT !.err = quote.err]]
      ELSE [provider |->
              [provider EXCEPT
                 !.reserveDebt = Plus(provider.reserveDebt, amountInDebt),
                 !.reserveCollateral =
                    Minus(provider.reserveCollateral, quote.amountOut)],
            quote |->
              [err |-> "", amountOutCollateral |-> quote.amountOut,
               feesUsd |-> MultipliedBy(quote.feePaid, provider.debtPriceUsd),
               route |-> Some(<<"amm_xyk", provider.feeBps>>),
               provenance |-> None]]

\* the amount the external provider passes to getQuote
kyberAmountInScaled(provider, amountInDebt) ==
  Floor(MultipliedBy(amountInDebt, Int2Num(Pow10(provider.debtDecimals))))

\* the rest of the external provider once getQuote has answered rawAmountOut
kyberProviderResume(provider, amountInDebt, rawAmountOut) ==
  LET amountOutCollateral ==
        DividedBy(Int2Num(rawAmountOut),
                  Int2Num(Pow10(provider.collateralDecimals)))
      amountInUsd == MultipliedBy(amountInDebt, provider.debtPriceUsd)
      amountOutUsd == MultipliedBy(amountOutCollateral,
                                   provider.collateralPriceUsd)
  IN  [err |-> "", amountOutCollateral |-> amountOutCollateral,
       feesUsd |-> bigMax(Minus(amountInUsd, amountOutUsd)),
       route |-> Some(<<"kyber", rawAmountOut>>),
       provenance |-> Some(<<"raw", kyberAmountInScaled(provider, amountInDebt),
                             rawAmountOut>>)]

(***************************************************************************)
(* simulateLooping, src/core/looping.ts.  One invocation is the record      *)
(* run[r]; pc is its position:                                              *)
(*   "idle"    not invoked                                                  *)
(*   "called"  invoked, arguments bound                                     *)
(*   "loop"    at the head of the for loop                                  *)
(*   "await"   suspended in `await swapProvider(...)`                       *)
(*   "done"    returned its artifacts     "failed"  threw                   *)
(* calls counts the swapProvider invocations of the run.                    *)
(***************************************************************************)
NoPending ==
  [amountInDebt |-> Zero, idealAmountOutCollateral |-> Zero,
   borrowValueUsd |-> Zero, quote |-> NoQuote]

IdleRun ==
  [pc |-> "idle", input |-> None, marketSnapshot |-> None, priceMap |-> None,
   oracleLagSeconds |-> None, provider |-> None,
   collateralPriceUsd |-> Zero, debtPriceUsd |-> Zero, borrowFraction |-> Zero,
   runningCollateral |-> Zero, runningDebt |-> Zero,
   collateralValueUsd |-> Zero, debtValueUsd |-> Zero,
   slippageCostUsd |-> Zero, actionPlan |-> <<>>, kyberQuotes |-> <<>>,
   i |-> 0, pending |-> NoPending, calls |-> 0,
   result |-> None, error |-> ""]

\* simulateLooping(input, deps) is invoked
callRun(input, marketSnapshot, priceMap, provider, oracleLagSeconds) ==
  [IdleRun EXCEPT !.pc = "called", !.input = input,
                  !.marketSnapshot = marketSnapshot, !.priceMap = priceMap,
                  !.provider = provider,
                  !.oracleLagSeconds = oracleLagSeconds]

\* lines 265-298: prices, the start_capital check, the borrow fraction and the
\* initial loop state
simEnter(s) ==
  LET collateralPriceUsd ==
        resolvePrice(s.input.collateral.symbol, s.priceMap,
                     s.marketSnapshot.defaultPrices.WETHUSD)
      debtPriceUsd ==
        resolvePrice(s.input.debt.symbol, s.priceMap,
                     s.marketSnapshot.defaultPrices.USDCUSD)
      collateralAmount == ParseBigNumber(s.input.start_capital)
  IN  IF ~IsFinite(collateralAmount) \/ IsNegative(collateralAmount)
      THEN [s EXCEPT !.pc = "failed",
                     !.error = "start_capital must be a positive numeric string"]
      ELSE [s EXCEPT
              !.pc = "loop",
              !.collateralPriceUsd = collateralPriceUsd,
              !.debtPriceUsd = debtPriceUsd,
              !.borrowFraction = DividedBy(s.input.target_ltv,
                                           s.marketSnapshot.market.lltv),
              !.runningCollateral = collateralAmount,
              !.runningDebt = Zero,
              !.collateralValueUsd = MultipliedBy(collateralAmount,
                                                  collateralPriceUsd),
              !.debtValueUsd = Zero,
              !.slippageCostUsd = Zero,
              !.actionPlan = <<>>, !.kyberQuotes = <<>>, !.i = 0]

SimEnter(r) ==
  /\ run[r].pc = "called"
  /\ run' = [run EXCEPT ![r] = simEnter(run[r])]
  /\ UNCHANGED <<now, buckets, cache, req, grants, oracle, kyber, call>>

borrowValueUsdRepaid(s) ==
  Negated(MultipliedBy(s.collateralValueUsd, s.borrowFraction))

\* line 301: the USD value borrowed in the iteration about to run
borrowValueUsdOf(s) == MultipliedBy(s.collateralValueUsd, s.borrowFraction)

loopContinuesAtZeroBorrow(s) == s.i < s.input.loops

\* the loop runs another iteration: i < loops and the borrow value is not zero
loopContinues(s) == s.i < s.input.loops /\ ~IsZero(borrowValueUsdOf(s))

\* lines 301-314: the amounts of iteration i and the provider invocation, up
\* to the provider's first suspension
iterBegin(s) ==
  LET borrowValueUsd == borrowValueUsdOf(s)
      borrowAmountDebt == DividedBy(borrowValueUsd, s.debtPriceUsd)
      idealOutCollateral == DividedBy(borrowValueUsd, s.collateralPriceUsd)
      amm == ammProviderCall(s.provider, borrowAmountDebt)
  IN  [s EXCEPT
         !.pc = "await",
         !.calls = s.calls + 1,
         !.provider = IF s.provider.kind = "amm" THEN amm.provider ELSE @,
         !.pending = [amountInDebt |-> borrowAmountDebt,
                      idealAmountOutCollateral |-> idealOutCollateral,
                      borrowValueUsd |-> borrowValueUsd,
                      quote |-> IF s.provider.kind = "amm" THEN amm.quote
                                ELSE NoQuote]]

\* a constant-product provider whose reserves live at module level: the trade
\* of one invocation moves the pool of every invocation in flight
IterBeginSharedPool(r) ==
  /\ run[r].pc = "loop"
  /\ loopContinues(run[r])
  /\ run' = [x \in Reqs |->
               IF x = r THEN iterBegin(run[r])
               ELSE IF run[x].pc \in {"called", "loop", "await"}
               THEN [run[x] EXCEPT !.provider = iterBegin(run[r]).provider]
               ELSE run[x]]
  /\ UNCHANGED <<now, buckets, cache, req, grants, oracle, kyber, call>>

IterBegin(r) ==
  /\ run[r].pc = "loop"
  /\ loopContinues(run[r])
  /\ run' = [run EXCEPT ![r] = iterBegin(run[r])]
  /\ UNCHANGED <<now, buckets, cache, req, grants, oracle, kyber, call>>

\* lines 316-349: the continuation of the await with the provider's quote
iterResume(s, quote) ==
  LET borrowAmountDebt == s.pending.amountInDebt
      idealOutCollateral == s.pending.idealAmountOutCollateral
      loopCollateralOut == quote.amountOutCollateral
      runningCollateral == Plus(s.runningCollateral, loopCollateralOut)
      runningDebt == Plus(s.runningDebt, borrowAmountDebt)
      slippageUnits == Minus(idealOutCollateral, loopCollateralOut)
      slippageUsd == MultipliedBy(bigMax(slippageUnits), s.collateralPriceUsd)
      step == [borrow |-> [asset |-> s.input.debt.symbol,
                           amount |-> bigToNumber(borrowAmountDebt)],
               swap |-> [from |-> s.input.debt.symbol,
                         to |-> s.input.collateral.symbol,
                         amount_in |-> bigToNumber(borrowAmountDebt),
                         amount_out |-> bigToNumber(loopCollateralOut),
                         route |-> quote.route],
               supply |-> [asset |-> s.input.collateral.symbol,
                           amount |-> bigToNumber(loopCollateralOut)]]
  IN  [s EXCEPT
         !.pc = "loop",
         !.kyberQuotes = IF IsSome(quote.provenance)
                         THEN Append(@, Get(quote.provenance)) ELSE @,
         !.runningCollateral = runningCollateral,
         !.runningDebt = runningDebt,
         !.collateralValueUsd = MultipliedBy(runningCollateral,
                                             s.collateralPriceUsd),
         !.debtValueUsd = MultipliedBy(runningDebt, s.debtPriceUsd),
         !.slippageCostUsd = Plus(Plus(s.slippageCostUsd, slippageUsd),
                                  quote.feesUsd),
         !.actionPlan = Append(@, step),
         !.pending = NoPending,
         !.i = s.i + 1]

\* the quotes the pending provider call can resolve with
pendingQuotes(s) ==
  IF s.provider.kind = "amm"
  THEN IF s.pending.quote.err = "" THEN {s.pending.quote} ELSE {}
  ELSE {kyberProviderResume(s.provider, s.pending.amountInDebt, raw) :
          raw \in KyberAmounts}

\* the errors the pending provider call can reject with
pendingErrors(s) ==
  IF s.provider.kind = "amm"
  THEN IF s.pending.quote.err = "" THEN {} ELSE {s.pending.quote.err}
  ELSE {"Kyber quote fetch failed"}

IterResume(r) ==
  /\ run[r].pc = "await"
  /\ \E quote \in pendingQuotes(run[r]) :
       run' = [run EXCEPT ![r] = iterResume(run[r], quote)]
  /\ UNCHANGED <<now, buckets, cache, req, grants, oracle, kyber, call>>

iterRejectAndRetry(s, err) == [s EXCEPT !.pc = "loop", !.pending = NoPending]

\* the awaited promise rejects: nothing catches it inside simulateLooping
iterReject(s, err) ==
  [s EXCEPT !.pc = "failed", !.error = err, !.pending = NoPending]

IterReject(r) ==
  /\ run[r].pc = "await"
  /\ \E err \in pendingErrors(run[r]) :
       run' = [run EXCEPT ![r] = iterReject(run[r], err)]
  /\ UNCHANGED <<now, buckets, cache, req, grants, oracle, kyber, call>>

\* scenario composition: every scenario is evaluated on a series to which the
\* rate shifts of the whole list have been applied
stressOutcomeComposed(s, scenario, timeSeries, horizonDays, supplyApr, borrowApr) ==
  LET lltv == s.marketSnapshot.market.lltv
      shifts == Cardinality({k \in 1 .. Len(s.input.scenarios) :
                               s.input.scenarios[k].type = "rates_shift"})
      outcome ==
        evaluateSeries(
          buildTimeSeries(
            [collateralAmount |-> s.runningCollateral,
             debtAmount |-> s.runningDebt, horizonDays |-> horizonDays,
             supplyApr |-> supplyApr,
             borrowApr |-> Plus(borrowApr, Int2Num(shifts)),
             collateralPriceUsd |-> s.collateralPriceUsd,
             debtPriceUsd |-> s.debtPriceUsd,
             lltv |-> lltv, oracleLagSeconds |-> s.oracleLagSeconds]),
          lltv, s.collateralPriceUsd, s.debtPriceUsd)
  IN  [scenario |-> <<scenario.type>>, min_hf |-> outcome.minHf,
       liquidated |-> outcome.liquidated,
       liq_loss_usd |-> outcome.liqLossUsd]

\* lines 376-445: one stress outcome per scenario, in input order
stressOutcome(s, scenario, timeSeries, horizonDays, supplyApr, borrowApr) ==
  LET lltv == s.marketSnapshot.market.lltv
      base == [collateralAmount |-> s.runningCollateral,
               debtAmount |-> s.runningDebt,
               horizonDays |-> horizonDays,
               supplyApr |-> supplyApr, borrowApr |-> borrowApr,
               collateralPriceUsd |-> s.collateralPriceUsd,
               debtPriceUsd |-> s.debtPriceUsd,
               lltv |-> lltv, oracleLagSeconds |-> s.oracleLagSeconds]
      shifted ==
        IF scenario.type = "rates_shift"
        THEN [base EXCEPT !.borrowApr =
                Plus(borrowApr,
                     DividedBy(Int2Num(scenario.borrow_apr_delta_bps),
                               Int2Num(10000)))]
        ELSE [base EXCEPT !.oracleLagSeconds = Some(scenario.lag_seconds)]
      label ==
        CASE scenario.type = "price_jump" ->
               <<"price_jump", scenario.asset, scenario.shock_pct,
                 scenario.at_day>>
          [] scenario.type = "rates_shift" ->
               <<"rates_shift", scenario.borrow_apr_delta_bps>>
          [] OTHER -> <<"oracle_lag", scenario.lag_seconds>>
      entry(outcome) ==
        [scenario |-> label, min_hf |-> outcome.minHf,
         liquidated |-> outcome.liquidated,
         liq_loss_usd |-> outcome.liqLossUsd]
  IN  entry(IF scenario.type = "price_jump"
            THEN runPriceJumpScenario(
                   [baseSeries |-> timeSeries,
                    shockPct |-> scenario.shock_pct,
                    atDay |-> scenario.at_day, lltv |-> lltv,
                    collateralPriceUsd |-> s.collateralPriceUsd,
                    debtPriceUsd |-> s.debtPriceUsd])
            ELSE evaluateSeries(buildTimeSeries(shifted), lltv,
                                s.collateralPriceUsd, s.debtPriceUsd))

\* lines 352-511: everything after the loop; it has no suspension point
simFinish(s, timestamp) ==
  LET lltv == s.marketSnapshot.market.lltv
      supplyApr == IF IsSome(s.input.rates.supply_apr)
                   THEN Get(s.input.rates.supply_apr)
                   ELSE s.marketSnapshot.rates.supplyApr
      borrowApr == IF IsSome(s.input.rates.borrow_apr)
                   THEN Get(s.input.rates.borrow_apr)
                   ELSE s.marketSnapshot.rates.borrowApr
      horizonDays == IF IsSome(s.input.horizon_days)
                     THEN Get(s.input.horizon_days) ELSE 30
      hfNow == hfOf(s.collateralValueUsd, s.debtValueUsd, lltv)
      leverageOf(equityUsd) ==
        IF Lte(equityUsd, Zero) THEN PInf
        ELSE DividedBy(s.collateralValueUsd, equityUsd)
      grossLeverage ==
        leverageOf(Minus(s.collateralValueUsd, s.debtValueUsd))
      horizonYears == Fin(horizonDays, 365)
      netAprOf(equityStart, equityEnd) ==
        IF Gt(equityStart, Zero) /\ Gt(horizonYears, Zero)
        THEN DividedBy(DividedBy(Minus(equityEnd, equityStart), equityStart),
                       horizonYears)
        ELSE Minus(supplyApr, borrowApr)
      \* the digest is modelled by the payload it is computed over
      provenancePayload ==
        [version |-> SIM_ENGINE_VERSION, input |-> s.input,
         protocol_params_used |-> s.marketSnapshot.market,
         prices |-> s.priceMap, kyber_quotes |-> s.kyberQuotes,
         timestamp |-> timestamp]
      \* lines 376-511, given the time series of lines 364-374
      resultOf(timeSeries) ==
        [summary |->
           [loops_done |-> Len(s.actionPlan),
            gross_leverage |-> grossLeverage,
            net_apr |->
              \* timeSeries[0]?.equity ?? 0, and the last one ?? equityStart
              IF Len(timeSeries) > 0
              THEN netAprOf(timeSeries[1].equity,
                            timeSeries[Len(timeSeries)].equity)
              ELSE netAprOf(Zero, Zero),
            hf_now |-> hfNow,
            liq_price |-> computeLiquidationPrice(
                            s.runningCollateral, s.runningDebt,
                            s.debtPriceUsd, lltv),
            slip_cost_usd |-> bigToNumber(s.slippageCostUsd)],
         time_series |-> timeSeries,
         stress |->
           [k \in 1 .. Len(s.input.scenarios) |->
              stressOutcome(s, s.input.scenarios[k], timeSeries, horizonDays,
                            supplyApr, borrowApr)],
         action_plan |-> s.actionPlan,
         protocol_params_used |-> s.marketSnapshot.market,
         receipt |-> [payment |-> None,
                      provenance_hash |-> provenancePayload],
         canExecute |-> None, reason |-> None]
      finished(result) == [s EXCEPT !.pc = "done", !.result = Some(result)]
  IN  finished(resultOf(buildTimeSeries(
        [collateralAmount |-> s.runningCollateral,
         debtAmount |-> s.runningDebt,
         horizonDays |-> horizonDays,
         supplyApr |-> supplyApr, borrowApr |-> borrowApr,
         collateralPriceUsd |-> s.collateralPriceUsd,
         debtPriceUsd |-> s.debtPriceUsd,
         lltv |-> lltv, oracleLagSeconds |-> s.oracleLagSeconds])))

\* an engine whose result depends on the slot it runs in
SimFinishSlotted(r) ==
  /\ run[r].pc = "loop"
  /\ ~loopContinues(run[r])
  /\ run' = [run EXCEPT ![r] =
               simFinish([run[r] EXCEPT !.slippageCostUsd =
                                          Plus(@, Int2Num(r))], now)]
  /\ UNCHANGED <<now, buckets, cache, req, grants, oracle, kyber, call>>

SimFinish(r) ==
  /\ run[r].pc = "loop"
  /\ ~loopContinues(run[r])
  /\ run' = [run EXCEPT ![r] = simFinish(run[r], now)]
  /\ UNCHANGED <<now, buckets, cache, req, grants, oracle, kyber, call>>

(***************************************************************************)
(* Rate limiter (utils/quota).  A bucket key is <<ip or "unknown",          *)
(* entrypoint>>; buckets maps every key to None (no entry) or Some(bucket). *)
(***************************************************************************)
ClientIps == {Some("10.0.0.1"), None}
Entrypoints == {"simulateLooping"}

getKey(ip, entrypoint) ==
  <<IF IsSome(ip) THEN Get(ip) ELSE "unknown", entrypoint>>

BucketKeys == {getKey(ip, e) : ip \in ClientIps, e \in Entrypoints}

enforceRateLimitUncapped(bk, ip, entrypoint, t) ==
  LET key == getKey(ip, entrypoint)
      bucket == bk[key]
  IN  IF ~IsSome(bucket) \/ Get(bucket).reset <= t
      THEN [ok |-> TRUE,
            buckets |-> [bk EXCEPT ![key] =
                           Some([count |-> 1, reset |-> t + windowMs])]]
      ELSE [ok |-> TRUE,
            buckets |-> [bk EXCEPT ![key] =
                           Some([Get(bucket) EXCEPT !.count = @ + 1])]]

\* enforceRateLimit at time t: [ok, buckets]; ok = FALSE is the thrown
\* HTTPException(429, "Rate limit exceeded. ...")
enforceRateLimit(bk, ip, entrypoint, t) ==
  LET key == getKey(ip, entrypoint)
      bucket == bk[key]
  IN  IF ~IsSome(bucket) \/ Get(bucket).reset <= t
      THEN [ok |-> TRUE,
            buckets |-> [bk EXCEPT ![key] =
                           Some([count |-> 1, reset |-> t + windowMs])]]
      ELSE IF Get(bucket).count >= maxRequests
      THEN [ok |-> FALSE, buckets |-> bk]
      ELSE [ok |-> TRUE,
            buckets |-> [bk EXCEPT ![key] =
                           Some([Get(bucket) EXCEPT !.count = @ + 1])]]

(***************************************************************************)
(* Idempotency cache (utils/idempotency): an LRUCache with a ttl.  An entry *)
(* older than the ttl is stale and get() does not return it.  The capacity  *)
(* (512 entries) is never reached with the keys of the model.               *)
(***************************************************************************)
IdempotencyKeys == {"k1"}

getCachedValueMissing(c, key, t) == None

getCachedValue(c, key, t) ==
  IF key \in DOMAIN c /\ IsSome(c[key]) /\ t - Get(c[key]).storedAt <= ttlMs
  THEN Some(Get(c[key]).value)
  ELSE None

storeValue(c, key, value, t) ==
  [c EXCEPT ![key] = Some([value |-> value, storedAt |-> t])]

\* headers.get("idempotency-key")?.trim()
Trim(text) == IF text = " k1 " THEN "k1" ELSE text

IdempotencyHeaders == {None, Some("k1"), Some(" k1 ")}

idempotencyKeyOf(header) == IF IsSome(header) THEN Some(Trim(Get(header))) ELSE None

\* `if (idempotencyKey)`: undefined and the empty string are falsy
hasIdempotencyKey(key) == IsSome(key) /\ Get(key) # ""

(***************************************************************************)
(* Market snapshots and requests of the model.                              *)
(***************************************************************************)
NoOverrides == [key \in PriceKeys |-> None]

\* the fixture's shape with small numbers: lltv 0.8, WETH 2 USD, USDC 1 USD,
\* and rates whose daily growth factors are the short fractions 1 + day/100
\* (supply) and 1 + day/50 (borrow)
FixtureSnapshot ==
  [market |-> [lltv |-> Fin(4, 5), liquidation_incentive |-> Fin(1, 20),
               close_factor |-> Fin(1, 2), data_source |-> "fixture"],
   rates |-> [supplyApr |-> Fin(73, 20), borrowApr |-> Fin(73, 10)],
   defaultPrices |-> [WETHUSD |-> Int2Num(2), USDCUSD |-> Int2Num(1)],
   tokens |-> [collateral |-> [symbol |-> "WETH", decimals |-> 1,
                               address |-> Some("0xC")],
               debt |-> [symbol |-> "USDC", decimals |-> 0,
                         address |-> Some("0xD")]]]

\* a live snapshot whose debt token carries no address
UnresolvedSnapshot ==
  [FixtureSnapshot EXCEPT !.tokens.debt.address = None,
                          !.market.data_source = "live"]

MarketSnapshots == {FixtureSnapshot, UnresolvedSnapshot}

BaseInput ==
  [protocol |-> "morpho-blue", chain |-> "base",
   collateral |-> [symbol |-> "WETH", decimals |-> 1],
   debt |-> [symbol |-> "USDC", decimals |-> 0],
   start_capital |-> "1",
   target_ltv |-> Fin(2, 5),
   loops |-> 2,
   price |-> None,
   swap_model |-> None,
   oracle |-> None,
   rates |-> [supply_apr |-> None, borrow_apr |-> None],
   horizon_days |-> Some(2),
   scenarios |-> <<>>,
   risk_limits |-> [min_hf |-> None, max_leverage |-> None]]

SwapModel(feeBps, baseReserve, quoteReserve) ==
  Some([type |-> "amm_xyk", fee_bps |-> feeBps,
        pool |-> [base_reserve |-> Int2Num(baseReserve),
                  quote_reserve |-> Int2Num(quoteReserve)]])

AllScenarios ==
  << [type |-> "price_jump", asset |-> "WETH", shock_pct |-> Fin(-1, 2),
      at_day |-> 1],
     [type |-> "rates_shift", borrow_apr_delta_bps |-> 36500],
     [type |-> "oracle_lag", lag_seconds |-> 1200] >>

DefaultLimits == [min_hf |-> Some(Fin(11, 10)), max_leverage |-> Some(Int2Num(12))]

\* {...marketSnapshot.defaultPrices, ...(input.price ?? {})}
mergePrices(defaultPrices, price) ==
  LET over == IF IsSome(price) THEN Get(price) ELSE NoOverrides
  IN  [key \in PriceKeys |->
         IF IsSome(over[key]) THEN over[key]
         ELSE IF key \in DOMAIN defaultPrices THEN Some(defaultPrices[key])
         ELSE None]

(***************************************************************************)
(* The simulateLooping entrypoint handler (entrypoints/simulateLooping).    *)
(* req[r].pc: "idle" no request, "loading" in `await loadMorphoMarket-      *)
(* Snapshot`, "simulating" in `await simulateLooping`, "responded" returned *)
(* { output }, "thrown" threw the rate limiter's HTTPException.             *)
(***************************************************************************)
NoResponse == [kind |-> "none", output |-> None, error |-> <<>>]

IdleReq ==
  [pc |-> "idle", ip |-> None, idempotencyKey |-> None,
   input |-> None, replay |-> FALSE, snapshotLoads |-> 0, engineRuns |-> 0,
   riskPre |-> None, riskPost |-> None, response |-> NoResponse]

outputResponse(result) ==
  [kind |-> "output", output |-> Some(result), error |-> <<>>]

errorResponseUnknown(message) ==
  [kind |-> "error", output |-> None, error |-> <<"Unknown error">>]

\* { output: { error: message } }; a message is kept as its parts
errorResponse(message) ==
  [kind |-> "error", output |-> None, error |-> message]

\* a handler that looks the key up before it counts the request
handlerBeginLookupFirst(q, bk, c, t, ip, header, input) ==
  LET idempotencyKey == idempotencyKeyOf(header)
      cached == IF hasIdempotencyKey(idempotencyKey)
                THEN getCachedValue(c, Get(idempotencyKey), t) ELSE None
      arrived == [q EXCEPT !.ip = ip, !.input = Some(input),
                           !.idempotencyKey = idempotencyKey]
      rl == enforceRateLimit(bk, ip, "simulateLooping", t)
  IN  IF IsSome(cached)
      THEN [buckets |-> bk,
            req |-> [arrived EXCEPT !.pc = "responded", !.replay = TRUE,
                                    !.response = outputResponse(Get(cached))]]
      ELSE IF ~rl.ok
      THEN [buckets |-> bk,
            req |-> [arrived EXCEPT
                       !.pc = "thrown",
                       !.response = [kind |-> "http429", output |-> None,
                                     error |-> <<"Rate limit exceeded">>]]]
      ELSE [buckets |-> rl.buckets,
            req |-> [arrived EXCEPT !.pc = "loading"]]

\* lines 52-73: rate limit, then the idempotency lookup, up to the first await
handlerBegin(q, bk, c, t, ip, header, input) ==
  LET rl == enforceRateLimit(bk, ip, "simulateLooping", t)
      idempotencyKey == idempotencyKeyOf(header)
      cached == IF hasIdempotencyKey(idempotencyKey)
                THEN getCachedValue(c, Get(idempotencyKey), t) ELSE None
      arrived == [q EXCEPT !.ip = ip, !.input = Some(input),
                           !.idempotencyKey = idempotencyKey]
  IN  IF ~rl.ok
      THEN [buckets |-> bk,
            req |-> [arrived EXCEPT
                       !.pc = "thrown",
                       !.response = [kind |-> "http429", output |-> None,
                                     error |-> <<"Rate limit exceeded">>]]]
      ELSE IF IsSome(cached)
      THEN [buckets |-> rl.buckets,
            req |-> [arrived EXCEPT !.pc = "responded", !.replay = TRUE,
                                    !.response = outputResponse(Get(cached))]]
      ELSE [buckets |-> rl.buckets,
            req |-> [arrived EXCEPT !.pc = "loading"]]

\* the parsed request as the risk check reads it: loops is a number there,
\* an integer because the schema admitted nothing else
riskInputOf(input) == [input EXCEPT !.loops = Int2Num(@)]

\* lines 91-201 once the snapshot is there: the address and decimals checks,
\* the pre-check, the price map and the provider, and the engine invocation.
\* [req, run]
handlerPrepare(q, marketSnapshot) ==
  LET input == Get(q.input)
      loaded == [q EXCEPT !.snapshotLoads = @ + 1]
      collateralAddress == marketSnapshot.tokens.collateral.address
      debtAddress == marketSnapshot.tokens.debt.address
      riskPre == preSimulationRiskCheck(riskInputOf(input),
                                        marketSnapshot.market,
                                        Int2Num(DEFAULT_MAX_LOOPS))
      priceMap == mergePrices(marketSnapshot.defaultPrices, input.price)
      collateralPriceUsd == IF IsSome(priceMap["WETHUSD"])
                            THEN Get(priceMap["WETHUSD"])
                            ELSE marketSnapshot.defaultPrices.WETHUSD
      debtPriceUsd == IF IsSome(priceMap["USDCUSD"])
                      THEN Get(priceMap["USDCUSD"])
                      ELSE marketSnapshot.defaultPrices.USDCUSD
      swapProvider ==
        IF IsSome(input.swap_model)
        THEN createAmmSwapProvider(Get(input.swap_model).fee_bps,
                                   Get(input.swap_model).pool.base_reserve,
                                   Get(input.swap_model).pool.quote_reserve,
                                   collateralPriceUsd, debtPriceUsd)
        ELSE createKyberSwapProvider(collateralPriceUsd, debtPriceUsd,
                                     marketSnapshot.tokens.collateral.decimals,
                                     marketSnapshot.tokens.debt.decimals)
      respond(message) ==
        [req |-> [loaded EXCEPT !.pc = "responded",
                                !.response = errorResponse(message)],
         run |-> IdleRun]
  IN  IF ~IsSome(collateralAddress) \/ ~IsSome(debtAddress)
      THEN respond(<<"Unable to resolve token addresses for selected market">>)
      ELSE IF input.collateral.decimals # marketSnapshot.tokens.collateral.decimals
      THEN respond(<<"Collateral decimals mismatch">>)
      ELSE IF input.debt.decimals # marketSnapshot.tokens.debt.decimals
      THEN respond(<<"Debt decimals mismatch">>)
      ELSE IF ~riskPre.ok
      THEN [req |-> [loaded EXCEPT
                       !.pc = "responded", !.riskPre = Some(riskPre),
                       !.response = errorResponse(<<"Invalid request: ",
                                                    riskPre.reasons>>)],
            run |-> IdleRun]
      ELSE [req |-> [loaded EXCEPT !.pc = "simulating",
                                   !.riskPre = Some(riskPre),
                                   !.engineRuns = @ + 1],
            run |-> callRun(input, marketSnapshot, priceMap, swapProvider,
                            input.oracle)]

\* a completion that leaves a result already stored under the key in place
handlerCompleteKeepFirst(q, sim, c, t) ==
  LET input == Get(q.input)
      result == Get(sim.result)
      postCheck == postSimulationRiskCheck(
                     [healthFactor |-> result.summary.hf_now,
                      grossLeverage |-> result.summary.gross_leverage,
                      minHealthFactor |-> input.risk_limits.min_hf,
                      maxLeverage |-> input.risk_limits.max_leverage])
      final == IF ~postCheck.ok
               THEN [result EXCEPT !.canExecute = Some(FALSE),
                                   !.reason = Some(postCheck.reasons)]
               ELSE [result EXCEPT !.canExecute = Some(TRUE)]
  IN  [req |-> [q EXCEPT !.pc = "responded", !.riskPost = Some(postCheck),
                         !.response = outputResponse(final)],
       cache |-> IF hasIdempotencyKey(q.idempotencyKey)
                    /\ ~IsSome(getCachedValue(c, Get(q.idempotencyKey), t))
                 THEN storeValue(c, Get(q.idempotencyKey), final, t)
                 ELSE c]

\* lines 211-274: the post-check, canExecute, the idempotency store and the
\* response.  [req, cache]
handlerComplete(q, sim, c, t) ==
  LET input == Get(q.input)
      result == Get(sim.result)
      postCheck == postSimulationRiskCheck(
                     [healthFactor |-> result.summary.hf_now,
                      grossLeverage |-> result.summary.gross_leverage,
                      minHealthFactor |-> input.risk_limits.min_hf,
                      maxLeverage |-> input.risk_limits.max_leverage])
      final == IF ~postCheck.ok
               THEN [result EXCEPT !.canExecute = Some(FALSE),
                                   !.reason = Some(postCheck.reasons)]
               ELSE [result EXCEPT !.canExecute = Some(TRUE)]
  IN  [req |-> [q EXCEPT !.pc = "responded", !.riskPost = Some(postCheck),
                         !.response = outputResponse(final)],
       cache |-> IF hasIdempotencyKey(q.idempotencyKey)
                 THEN storeValue(c, Get(q.idempotencyKey), final, t)
                 ELSE c]

\* lines 275-288: the catch block
handlerCatch(q, message) ==
  [q EXCEPT !.pc = "responded", !.response = errorResponse(<<message>>)]

(***************************************************************************)
(* Actions of the handler.                                                  *)
(***************************************************************************)
\* the client addresses and the requests the handler model receives
HandlerIps == {Some("10.0.0.1")}

HandlerInputs ==
  { \* constant-product pool, no risk limits
    [BaseInput EXCEPT !.swap_model = SwapModel(0, 4, 8)],
    \* external quotes, one loop, no risk limits
    [BaseInput EXCEPT !.target_ltv = Fin(3, 5), !.loops = 1],
    \* the same under the documented default limits
    [BaseInput EXCEPT !.target_ltv = Fin(3, 5), !.loops = 1,
                      !.risk_limits = DefaultLimits],
    \* target_ltv above the market's lltv
    [BaseInput EXCEPT !.target_ltv = Fin(9, 10),
                      !.swap_model = SwapModel(0, 4, 8)],
    \* target_ltv above lltv and too many loops
    [BaseInput EXCEPT !.target_ltv = Fin(9, 10), !.loops = 11,
                      !.swap_model = SwapModel(0, 4, 8)],
    \* an empty pool
    [BaseInput EXCEPT !.swap_model = SwapModel(0, 0, 8)],
    \* start_capital that is no number
    [BaseInput EXCEPT !.start_capital = "abc",
                      !.swap_model = SwapModel(0, 4, 8)],
    \* wrong decimals
    [BaseInput EXCEPT !.collateral.decimals = 2],
    [BaseInput EXCEPT !.debt.decimals = 2] }

HandlerBegin(r) ==
  /\ req[r].pc = "idle"
  /\ \E ip \in HandlerIps, header \in IdempotencyHeaders, input \in HandlerInputs :
       LET h == handlerBegin(req[r], buckets, cache, now, ip, header, input)
       IN  /\ buckets' = h.buckets
           /\ req' = [req EXCEPT ![r] = h.req]
  /\ UNCHANGED <<now, cache, run, grants, oracle, kyber, call>>

\* loadMorphoMarketSnapshot resolves
SnapshotLoaded(r) ==
  /\ req[r].pc = "loading"
  /\ \E marketSnapshot \in MarketSnapshots :
       LET h == handlerPrepare(req[r], marketSnapshot)
       IN  /\ req' = [req EXCEPT ![r] = h.req]
           /\ run' = [run EXCEPT ![r] = h.run]
  /\ UNCHANGED <<now, buckets, cache, grants, oracle, kyber, call>>

\* loadMorphoMarketSnapshot rejects
SnapshotFailed(r) ==
  /\ req[r].pc = "loading"
  /\ req' = [req EXCEPT ![r] =
               handlerCatch([req[r] EXCEPT !.snapshotLoads = @ + 1],
                            "Unable to resolve Morpho Blue market")]
  /\ UNCHANGED <<now, buckets, cache, run, grants, oracle, kyber, call>>

HandlerComplete(r) ==
  /\ req[r].pc = "simulating"
  /\ run[r].pc = "done"
  /\ LET h == handlerComplete(req[r], run[r], cache, now)
     IN  /\ req' = [req EXCEPT ![r] = h.req]
         /\ cache' = h.cache
  /\ UNCHANGED <<now, buckets, run, grants, oracle, kyber, call>>

HandlerCatch(r) ==
  /\ req[r].pc = "simulating"
  /\ run[r].pc = "failed"
  /\ req' = [req EXCEPT ![r] = handlerCatch(req[r], run[r].error)]
  /\ UNCHANGED <<now, buckets, cache, run, grants, oracle, kyber, call>>

\* the response has left; the slot takes the next request
HandlerRelease(r) ==
  /\ req[r].pc \in {"responded", "thrown"}
  /\ req' = [req EXCEPT ![r] = IdleReq]
  /\ run' = [run EXCEPT ![r] = IdleRun]
  /\ UNCHANGED <<now, buckets, cache, grants, oracle, kyber, call>>

Tick ==
  /\ now < MaxNow
  /\ now' = now + 1
  /\ UNCHANGED <<buckets, cache, req, run, grants, oracle, kyber, call>>

\* a direct call of enforceRateLimit, as the unit test makes it
EnforceRateLimit(ip, entrypoint) ==
  LET rl == enforceRateLimit(buckets, ip, entrypoint, now)
      key == getKey(ip, entrypoint)
  IN  /\ buckets' = rl.buckets
      /\ grants' = IF rl.ok THEN [grants EXCEPT ![key] = Append(@, now)]
                   ELSE grants
      /\ UNCHANGED <<now, cache, req, run, oracle, kyber, call>>

(***************************************************************************)
(* Specifications.                                                          *)
(***************************************************************************)
InitShared ==
  /\ now = 0
  /\ buckets = [key \in BucketKeys |-> None]
  /\ cache = [key \in IdempotencyKeys |-> None]
  /\ req = [r \in Reqs |-> IdleReq]
  /\ grants = [key \in BucketKeys |-> <<>>]

\* the direct callers of the oracle model, of the aggregator client and of
\* the pure functions have not called anything
InitQuiet ==
  /\ oracle = NoOracle
  /\ kyber = NoKyber
  /\ call = NoCall

\* the entrypoint: requests are served one after the other in slot 1
Init ==
  /\ InitShared
  /\ InitQuiet
  /\ run = [r \in Reqs |-> IdleRun]

Next ==
  \/ Tick
  \/ HandlerBegin(1)
  \/ SnapshotLoaded(1)
  \/ SnapshotFailed(1)
  \/ SimEnter(1)
  \/ IterBegin(1)
  \/ IterResume(1)
  \/ IterReject(1)
  \/ SimFinish(1)
  \/ HandlerComplete(1)
  \/ HandlerCatch(1)
  \/ HandlerRelease(1)

Spec == Init /\ [][Next]_vars

\* the rate limiter alone
NextQuota ==
  \/ Tick
  \/ \E ip \in ClientIps, entrypoint \in Entrypoints :
       EnforceRateLimit(ip, entrypoint)

SpecQuota == Init /\ [][NextQuota]_vars

(***************************************************************************)
(* The engine called directly, as the unit tests call it: one invocation of *)
(* simulateLooping in slot 1 with the caller's own provider.                *)
(***************************************************************************)
EnginePriceMaps ==
  { mergePrices(FixtureSnapshot.defaultPrices, None),
    mergePrices(FixtureSnapshot.defaultPrices,
                Some([NoOverrides EXCEPT !["USDCUSD"] = Some(Zero)])),
    mergePrices(FixtureSnapshot.defaultPrices,
                Some([NoOverrides EXCEPT !["WETHUSD"] = Some(Zero)])),
    mergePrices(FixtureSnapshot.defaultPrices,
                Some([NoOverrides EXCEPT !["WETH"] = Some(Int2Num(4))])) }

EngineProviders(collateralPriceUsd, debtPriceUsd) ==
  { createAmmSwapProvider(0, Int2Num(4), Int2Num(8),
                          collateralPriceUsd, debtPriceUsd),
    createAmmSwapProvider(10000, Int2Num(4), Int2Num(8),
                          collateralPriceUsd, debtPriceUsd),
    createAmmSwapProvider(0, Int2Num(0), Int2Num(8),
                          collateralPriceUsd, debtPriceUsd),
    \* fee_bps above 10000: the request schema only asks for a non-negative fee
    createAmmSwapProvider(20000, Int2Num(4), Int2Num(8),
                          collateralPriceUsd, debtPriceUsd),
    createKyberSwapProvider(collateralPriceUsd, debtPriceUsd, 1, 0) }

tradesPool(provider) ==
  /\ provider.kind = "amm"
  /\ provider.feeBps # BPS_DENOMINATOR
  /\ ~IsZero(provider.reserveCollateral)

\* the snapshot's rates, or a supply rate above the borrow rate
EngineRates ==
  { [supply_apr |-> None, borrow_apr |-> None],
    [supply_apr |-> Some(Fin(73, 5)), borrow_apr |-> None] }

\* no scenarios, one of each type, and two of them in another order
EngineScenarios ==
  {<<>>, AllScenarios, <<AllScenarios[3], AllScenarios[1]>>}

EngineInputs ==
  { [BaseInput EXCEPT !.start_capital = capital, !.target_ltv = ltv,
                      !.loops = loops, !.scenarios = scenarios,
                      !.rates = rates] :
      capital \in CapitalStrings, rates \in EngineRates,
      ltv \in {Zero, Fin(2, 5), Fin(4, 5), Fin(9, 10)},
      loops \in 1 .. MaxLoops,
      scenarios \in EngineScenarios }

InitEngine ==
  /\ InitShared
  /\ InitQuiet
  /\ \E input \in EngineInputs, priceMap \in EnginePriceMaps,
        lag \in {None, Some(SECONDS_PER_DAY)} :
       \E provider \in EngineProviders(Get(priceMap["WETHUSD"]),
                                       Get(priceMap["USDCUSD"])) :
         /\ tradesPool(provider) => input.loops <= MaxPoolLoops
         /\ tradesPool(provider) /\ input.loops > 1 => input.scenarios = <<>>
         /\ IsSome(input.rates.supply_apr) =>
              provider.kind = "kyber" /\ input.loops = 1
         /\ run = [r \in Reqs |->
                    IF r = 1
                    THEN callRun(input, FixtureSnapshot, priceMap, provider, lag)
                    ELSE IdleRun]

NextEngine ==
  \/ SimEnter(1)
  \/ IterBegin(1)
  \/ IterResume(1)
  \/ IterReject(1)
  \/ SimFinish(1)

SpecEngine == InitEngine /\ [][NextEngine]_vars

(***************************************************************************)
(* Claims about the engine (SpecEngine: simulateLooping called directly in  *)
(* slot 1).                                                                 *)
(***************************************************************************)
\* the provider invocations of a run that have been added to the totals
settledCalls(s) == Len(s.actionPlan)

C1_Counts ==
  LET s == run[1]
  IN  /\ s.i = settledCalls(s)
      /\ s.calls - settledCalls(s) \in {0, 1}
      /\ s.pc = "await" => s.calls = settledCalls(s) + 1
      /\ s.pc \in {"called", "loop", "done"} => s.calls = settledCalls(s)
      /\ s.pc = "done" =>
           /\ Get(s.result).summary.loops_done = s.calls
           /\ s.calls <= s.input.loops

C1_Step ==
  LET s == run[1]
      t == run'[1]
  IN  \* an invocation is issued from the loop head only, one at a time,
      \* after every earlier result is in the totals, with a non-zero borrow
      /\ t.calls # s.calls =>
           /\ s.pc = "loop" /\ t.pc = "await"
           /\ t.calls = s.calls + 1
           /\ s.calls = settledCalls(s)
           /\ ~IsZero(borrowValueUsdOf(s))
      \* a zero borrow value ends the loop without an invocation
      /\ s.pc = "loop" /\ IsZero(borrowValueUsdOf(s)) =>
           t.pc = "done" /\ t.calls = s.calls
      \* what follows the loop (time series, stress) invokes nothing
      /\ t.pc = "done" => t.calls = s.calls

\* C1: in one simulateLooping run the swap provider is invoked strictly
\* sequentially, exactly once per executed iteration: a new invocation is
\* issued only when every earlier result has been added to the running
\* totals, an iteration whose borrow value is zero ends the loop without an
\* invocation, and over the whole run (loop, time series and stress
\* scenarios) the invocations number summary.loops_done <= loops.
C1_SequentialOncePerIteration == []C1_Counts /\ [][C1_Step]_vars

\* a run with stress scenarios that returned after two settled invocations
C1_Witness ==
  /\ run[1].pc = "done"
  /\ run[1].calls = 2
  /\ Get(run[1].result).summary.loops_done = 2
  /\ Len(Get(run[1].result).stress) = 3

C2_Failed ==
  run[1].pc = "failed" => run[1].result = None /\ run[1].error # ""

C2_Step ==
  LET s == run[1]
      t == run'[1]
  IN  \* a pending call either resolves or rejects, and a rejection ends the run
      /\ s.pc = "await" /\ t.pc # "loop" =>
           t.pc = "failed" /\ t.calls = s.calls /\ t.result = None
      \* a constant-product quote that raised cannot resolve
      /\ s.pc = "await" /\ s.provider.kind = "amm"
           /\ s.pending.quote.err # "" => t.pc = "failed"
      \* a failed run takes no further step: no retry, no later invocation
      /\ s.pc = "failed" => t = s

\* C2: when the swap provider fails at an iteration (its promise rejects, or
\* the constant-product quote raises on a non-positive reserve),
\* simulateLooping fails as a whole: no result object, no further provider
\* invocation, no retry of the failed call.
C2_ProviderFailureAborts == []C2_Failed /\ [][C2_Step]_vars

\* the provider failed at the second iteration, after one settled iteration
C2_Witness ==
  /\ run[1].pc = "failed"
  /\ run[1].calls = 2
  /\ Len(run[1].actionPlan) = 1
  /\ run[1].result = None

\* prices and borrow fraction positive, and no settled swap of the run
\* returned a negative amount
C3_Pre(s) ==
  /\ Gt(s.collateralPriceUsd, Zero)
  /\ Gt(s.debtPriceUsd, Zero)
  /\ Gt(s.borrowFraction, Zero)
  /\ \A k \in 1 .. Len(s.actionPlan) :
       Gte(s.actionPlan[k].swap.amount_out, Zero)

C3_Start ==
  LET s == run[1]
  IN  s.pc \in {"loop", "await"} /\ Len(s.actionPlan) = 0 =>
        /\ s.runningCollateral = ParseBigNumber(s.input.start_capital)
        /\ s.runningDebt = Zero

C3_Step ==
  LET s == run[1]
      t == run'[1]
  IN  s.pc = "await" /\ t.pc = "loop" =>
        \* debt grows by the borrowed amount, whatever the swap returned
        /\ t.runningDebt = Plus(s.runningDebt, s.pending.amountInDebt)
        /\ \A quote \in pendingQuotes(s) :
             iterResume(s, quote).runningDebt = t.runningDebt
        \* with non-negative outputs so far, neither total decreases
        /\ C3_Pre(t) =>
             /\ Gte(t.runningCollateral, s.runningCollateral)
             /\ Gte(t.runningDebt, s.runningDebt)

\* C3: running collateral starts at start_capital and running debt at 0; for
\* a provider whose outputs are >= 0 (positive prices, positive borrow
\* fraction) neither total decreases from one iteration to the next, and the
\* debt grows by exactly the borrowed amount whatever the swap returned.
C3_LoopStateMonotone == []C3_Start /\ [][C3_Step]_vars

\* two iterations settled with non-negative outputs: both totals have grown
C3_Witness ==
  /\ run[1].pc = "loop"
  /\ Len(run[1].actionPlan) = 2
  /\ C3_Pre(run[1])
  /\ Gt(run[1].runningDebt, Zero)
  /\ Gt(run[1].runningCollateral, ParseBigNumber(run[1].input.start_capital))

(***************************************************************************)
(* Claims about the entrypoint handler (Spec).                              *)
(***************************************************************************)
\* the handler of slot 1 starts on a request
C4_Arrives == req[1].pc = "idle" /\ req'[1].pc # "idle"

\* the arriving request carries a key with a stored, unexpired result
C4_Entry == cache[Get(req'[1].idempotencyKey)]

C4_Stored ==
  /\ IsSome(req'[1].idempotencyKey)
  /\ Get(req'[1].idempotencyKey) \in IdempotencyKeys
  /\ IsSome(C4_Entry)
  /\ now - Get(C4_Entry).storedAt <= ttlMs

\* the rate limiter lets the arriving request through
C4_Admitted ==
  enforceRateLimit(buckets, req'[1].ip, "simulateLooping", now).ok

\* the stored result is the response, and nothing was loaded, run or stored
C4_Replayed ==
  /\ req'[1].pc = "responded"
  /\ req'[1].response.kind = "output"
  /\ req'[1].response.output = Some(Get(C4_Entry).value)
  /\ req'[1].snapshotLoads = 0
  /\ req'[1].engineRuns = 0
  /\ run'[1] = IdleRun
  /\ cache' = cache

\* a replayed request stays as it was answered until its slot is released
C4_ReplayQuiet ==
  req[1].replay =>
    /\ req[1].pc = "responded"
    /\ req[1].snapshotLoads = 0 /\ req[1].engineRuns = 0
    /\ run[1].pc = "idle" /\ run[1].calls = 0

\* C4 as stated: a request whose Idempotency-Key has a stored, unexpired
\* result gets that result, with no snapshot load, engine run or provider
\* invocation.
C4_ReplayAlways ==
  []C4_ReplayQuiet /\ [][C4_Arrives /\ C4_Stored => C4_Replayed]_vars

\* C4 (amended): a request that the rate limiter admits and whose
\* Idempotency-Key has a stored, unexpired result gets that stored result;
\* the handler loads no snapshot, runs no engine and invokes no provider.
C4_ReplayWhenAdmitted ==
  /\ []C4_ReplayQuiet
  /\ [][C4_Arrives /\ C4_Stored /\ C4_Admitted => C4_Replayed]_vars

\* a request answered from the cache with a full result stored earlier
C4_Witness ==
  /\ req[1].replay
  /\ req[1].pc = "responded"
  /\ req[1].response.kind = "output"
  /\ IsSome(cache["k1"])
  /\ req[1].response.output = Some(Get(cache["k1"]).value)
  /\ req[1].snapshotLoads = 0

(***************************************************************************)
(* Claims about the rate limiter (SpecQuota: direct enforceRateLimit calls, *)
(* grants keeping the times of the calls that returned).                    *)
(***************************************************************************)
\* the calls for a key that returned at or after time t0
C5_GrantsSince(key, t0) ==
  Cardinality({k \in DOMAIN grants[key] : grants[key][k] >= t0})

\* what a call made in the current state does, for one client and entrypoint
C5_Call(ip, entrypoint) ==
  LET key == getKey(ip, entrypoint)
      bucket == buckets[key]
      rl == enforceRateLimit(buckets, ip, entrypoint, now)
      opens == [count |-> 1, reset |-> now + windowMs]
  IN  /\ IsSome(bucket) =>
           \* the count stays within 1 .. maxRequests
           /\ Get(bucket).count \in 1 .. maxRequests
           \* the calls that returned in the bucket's window are its count
           /\ C5_GrantsSince(key, Get(bucket).reset - windowMs)
                = Get(bucket).count
      \* a further call in a window whose quota is used up throws and leaves
      \* the bucket as it is
      /\ IsSome(bucket) /\ now < Get(bucket).reset
           /\ Get(bucket).count >= maxRequests =>
           ~rl.ok /\ rl.buckets = buckets
      \* a call in a window with quota left returns and counts
      /\ IsSome(bucket) /\ now < Get(bucket).reset
           /\ Get(bucket).count < maxRequests =>
           /\ rl.ok
           /\ rl.buckets[key] = Some([Get(bucket) EXCEPT !.count = @ + 1])
      \* the first call at or after the reset time opens a new window
      /\ IsSome(bucket) /\ now >= Get(bucket).reset =>
           rl.ok /\ rl.buckets[key] = Some(opens)
      \* a call touches its own bucket only
      /\ \A other \in BucketKeys \ {key} : rl.buckets[other] = buckets[other]

\* C5: for each (client IP, entrypoint) key at most maxRequests calls of
\* enforceRateLimit return within one window; every further call in that
\* window throws the 429 error and leaves the bucket's count and reset time
\* unchanged; the first call at or after the reset time returns and opens a
\* new window with count 1; every bucket's count is in 1 .. maxRequests.
C5_RateLimit ==
  \A ip \in ClientIps, entrypoint \in Entrypoints : C5_Call(ip, entrypoint)

\* a key in its second window with the quota used up: the next call throws
C5_Witness ==
  \E ip \in ClientIps, entrypoint \in Entrypoints :
    LET key == getKey(ip, entrypoint)
    IN  /\ IsSome(buckets[key])
        /\ Get(buckets[key]).count = maxRequests
        /\ now < Get(buckets[key]).reset
        /\ Len(grants[key]) > maxRequests
        /\ ~enforceRateLimit(buckets, ip, entrypoint, now).ok

\* the request of slot 1 was answered with a result computed for it
C6_Answered ==
  /\ req[1].pc = "responded"
  /\ ~req[1].replay
  /\ req[1].response.kind = "output"

\* C6: the default policy envelope (health factor >= 1.1, gross leverage
\* <= 12) is enforced when the request supplies no risk_limits: a result
\* with hf_now < 1.1 or gross_leverage > 12 is returned with canExecute =
\* false.
C6_DefaultEnvelope ==
  LET result == Get(req[1].response.output)
  IN  /\ C6_Answered
      /\ Get(req[1].input).risk_limits =
           [min_hf |-> None, max_leverage |-> None]
      /\ \/ Lt(result.summary.hf_now, Get(DefaultLimits.min_hf))
         \/ Gt(result.summary.gross_leverage, Get(DefaultLimits.max_leverage))
      => result.canExecute = Some(FALSE)

\* the pre-check of the request in slot 1 ran and failed
C7_PreFailed(q) == IsSome(q.riskPre) /\ ~Get(q.riskPre).ok

\* the handler reaches the pre-check with this snapshot
C7_ReachesPreCheck(q, marketSnapshot) ==
  /\ IsSome(marketSnapshot.tokens.collateral.address)
  /\ IsSome(marketSnapshot.tokens.debt.address)
  /\ Get(q.input).collateral.decimals
       = marketSnapshot.tokens.collateral.decimals
  /\ Get(q.input).debt.decimals = marketSnapshot.tokens.debt.decimals

C7_Rejection ==
  LET q == req[1]
  IN  \* a failed pre-check is answered with its reasons, the engine untouched
      /\ C7_PreFailed(q) =>
           /\ q.pc = "responded"
           /\ q.response.kind = "error"
           /\ Len(Get(q.riskPre).reasons) > 0
           /\ q.response.error =
                <<"Invalid request: ", Get(q.riskPre).reasons>>
           /\ q.engineRuns = 0
           /\ run[1].pc = "idle" /\ run[1].calls = 0
           /\ Len(run[1].actionPlan) = 0
      \* no other answer looks like it: not a computation error, not another
      \* early return
      /\ q.response.kind = "error" /\ ~C7_PreFailed(q) =>
           q.response.error[1] # "Invalid request: "
      \* the check that fails is preSimulationRiskCheck on the loaded market
      /\ q.pc = "loading" =>
           \A marketSnapshot \in MarketSnapshots :
             LET pre == preSimulationRiskCheck(riskInputOf(Get(q.input)),
                                               marketSnapshot.market,
                                               Int2Num(DEFAULT_MAX_LOOPS))
             IN  C7_ReachesPreCheck(q, marketSnapshot) /\ ~pre.ok =>
                   handlerPrepare(q, marketSnapshot).req.riskPre = Some(pre)

\* from the failed pre-check on, nothing is stored and the engine stays idle
C7_Step ==
  C7_PreFailed(req'[1]) => cache' = cache /\ run'[1] = IdleRun

\* C7: when the pre-simulation risk check fails, the handler answers with a
\* rejection that carries the pre-check reasons and differs from every
\* computation error, before the engine starts: no provider invocation, no
\* loop iteration, nothing stored under the request's idempotency key.
C7_PreCheckRejects == []C7_Rejection /\ [][C7_Step]_vars

\* a keyed request rejected for two reasons, with nothing stored
C7_Witness ==
  /\ C7_PreFailed(req[1])
  /\ Len(Get(req[1].riskPre).reasons) = 2
  /\ req[1].idempotencyKey = Some("k1")
  /\ cache["k1"] = None
  /\ req[1].snapshotLoads = 1

C8_BelowMinHf(q) ==
  /\ IsSome(Get(q.input).risk_limits.min_hf)
  /\ Lt(Get(q.response.output).summary.hf_now,
        Get(Get(q.input).risk_limits.min_hf))

C8_AboveMaxLeverage(q) ==
  /\ IsSome(Get(q.input).risk_limits.max_leverage)
  /\ Gt(Get(q.response.output).summary.gross_leverage,
        Get(Get(q.input).risk_limits.max_leverage))

\* the reasons name exactly the violated limits, health factor first
C8_Reasons(q) ==
  (IF C8_BelowMinHf(q) THEN <<"final health factor is below minimum">>
   ELSE <<>>)
  \o (IF C8_AboveMaxLeverage(q) THEN <<"gross leverage exceeds maximum">>
      ELSE <<>>)

C9_Entered(s) == s.pc \in {"loop", "await", "done", "failed"}

C9_BadCapital(s) ==
  \/ ~IsFinite(ParseBigNumber(s.input.start_capital))
  \/ Lte(ParseBigNumber(s.input.start_capital), Zero)

C9_BadBorrowFraction(s) ==
  Gte(DividedBy(s.input.target_ltv, s.marketSnapshot.market.lltv), One)

\* C9: input semantic errors reject the whole run before any loop iteration:
\* with start_capital non-positive or not a finite numeric string, or with
\* the borrow fraction target_ltv / lltv >= 1, simulateLooping fails without
\* invoking the swap provider and without returning a result.
C9_SemanticErrorsReject ==
  LET s == run[1]
  IN  C9_Entered(s) /\ (C9_BadCapital(s) \/ C9_BadBorrowFraction(s)) =>
        s.pc = "failed" /\ s.calls = 0 /\ s.result = None

C10_Finite(step) ==
  /\ IsFinite(step.borrow.amount)
  /\ IsFinite(step.swap.amount_in)
  /\ IsFinite(step.swap.amount_out)
  /\ IsFinite(step.supply.amount)

\* C10: division by a zero price or a zero reserve fails the run with an
\* error: with a zero debt or collateral price (and a non-zero borrow value)
\* or a zero pool reserve the run ends in an error, and no amount of a run
\* that goes on (borrow amount, ideal output, swap output, running
\* collateral, running debt) is NaN or Infinity.
C10_ZeroDivisionFails ==
  LET s == run[1]
      zeroPrice == IsZero(s.debtPriceUsd) \/ IsZero(s.collateralPriceUsd)
      zeroReserve == /\ s.provider.kind = "amm"
                     /\ \/ IsZero(s.provider.reserveCollateral)
                        \/ IsZero(s.provider.reserveDebt)
  IN  /\ s.pc \in {"loop", "done"} =>
           /\ IsFinite(s.runningCollateral)
           /\ IsFinite(s.runningDebt)
           /\ \A k \in 1 .. Len(s.actionPlan) : C10_Finite(s.actionPlan[k])
      \* an iteration that divided by zero did not settle
      /\ s.pc \in {"loop", "done"} /\ Len(s.actionPlan) > 0 =>
           ~zeroPrice /\ ~zeroReserve

(***************************************************************************)
(* C11: every quote a provider resolves with has amountOutCollateral >= 0,  *)
(* for every pool the request schema accepts and every aggregator answer    *)
(* the provider accepts, and a provider that fails rejects instead of       *)
(* resolving with a quote.  (The borrowed amount handed to the provider is  *)
(* finite and not negative here, so the quote is the provider's own doing.) *)
(***************************************************************************)
C11_Asked(s) ==
  /\ s.pc = "await"
  /\ IsFinite(s.pending.amountInDebt)
  /\ ~IsNegative(s.pending.amountInDebt)

C11_NonNegativeOrError ==
  LET s == run[1]
  IN  C11_Asked(s) =>
        /\ \A quote \in pendingQuotes(s) :
             Gte(quote.amountOutCollateral, Zero)
        /\ s.provider.kind = "amm" =>
             \/ pendingQuotes(s) = {}
             \/ pendingErrors(s) = {}

(***************************************************************************)
(* The oracle-lag model called directly: a caller starts from the state     *)
(* {lastPrice: held, lastUpdateTimestamp: 0}, calls resolveOraclePrice at   *)
(* increasing timestamps with any spot price and threads the returned state *)
(* into the next call, as buildTimeSeries does.  oracle.calls keeps the     *)
(* calls made: spot price, timestamp, returned price and returned state.    *)
(***************************************************************************)
MaxLagSeconds == 3

MaxTimestamp == 5

OracleSpots == {Int2Num(1), Int2Num(2)}

OracleConfigs == {None} \cup {Some(lagSeconds) : lagSeconds \in 0 .. MaxLagSeconds}

lastTimestamp(o) ==
  IF o.calls = <<>> THEN -1 ELSE o.calls[Len(o.calls)].timestamp

ResolveOraclePrice ==
  \E spotPrice \in OracleSpots, timestamp \in 0 .. MaxTimestamp :
    LET r == resolveOraclePrice(spotPrice, timestamp, oracle.config,
                                oracle.state)
    IN  /\ timestamp > lastTimestamp(oracle)
        /\ oracle' = [oracle EXCEPT
                        !.state = r.state,
                        !.calls = Append(@, [spotPrice |-> spotPrice,
                                             timestamp |-> timestamp,
                                             price |-> r.price,
                                             state |-> r.state])]
        /\ UNCHANGED <<now, buckets, cache, req, run, grants, kyber, call>>

InitOracle ==
  /\ InitShared
  /\ run = [r \in Reqs |-> IdleRun]
  /\ kyber = NoKyber
  /\ call = NoCall
  /\ \E config \in OracleConfigs, held \in OracleSpots :
       oracle = [config |-> config, held |-> held,
                 state |-> [lastPrice |-> held, lastUpdateTimestamp |-> 0],
                 calls |-> <<>>]

NextOracle == ResolveOraclePrice

SpecOracle == InitOracle /\ [][NextOracle]_vars

(***************************************************************************)
(* C12: oracle lag holds, then refreshes.  With a lag L configured and the  *)
(* returned state threaded into the next call, starting from the state      *)
(* {held, 0}: every call at a timestamp below L returns the held price and  *)
(* leaves the state as it was, whatever the spot price; the call at         *)
(* timestamp L returns the spot price of that call and leaves {spot, L};    *)
(* and a call whose timestamp lies in [T, T + L) after a refresh at T       *)
(* returns the spot price that was stored at T.                             *)
(***************************************************************************)
C12_Refreshed(entry) ==
  /\ entry.price = entry.spotPrice
  /\ entry.state = [lastPrice |-> entry.spotPrice,
                    lastUpdateTimestamp |-> entry.timestamp]

C12_HoldsThenRefreshes ==
  IsSome(oracle.config) =>
    LET L == Get(oracle.config)
        calls == oracle.calls
        start == [lastPrice |-> oracle.held, lastUpdateTimestamp |-> 0]
    IN  /\ \A k \in 1 .. Len(calls) :
             /\ calls[k].timestamp < L =>
                  calls[k].price = oracle.held /\ calls[k].state = start
             /\ calls[k].timestamp = L => C12_Refreshed(calls[k])
        /\ \A j \in 1 .. Len(calls), k \in 1 .. Len(calls) :
             /\ j < k
             /\ calls[j].timestamp >= L
             /\ C12_Refreshed(calls[j])
             /\ calls[k].timestamp < calls[j].timestamp + L
             => /\ calls[k].price = calls[j].spotPrice
                /\ calls[k].state = calls[j].state

\* a lag of 2: a call before the lag is over with a spot price that is not
\* the held one, the call at the lag, and a later call inside the next window
\* with yet another spot price
C12_Witness ==
  /\ oracle.config = Some(2)
  /\ \E i \in 1 .. Len(oracle.calls), j \in 1 .. Len(oracle.calls),
        k \in 1 .. Len(oracle.calls) :
       /\ oracle.calls[i].timestamp = 1
       /\ oracle.calls[i].spotPrice # oracle.held
       /\ oracle.calls[j].timestamp = 2
       /\ oracle.calls[j].price # oracle.held
       /\ oracle.calls[k].timestamp = 3
       /\ oracle.calls[k].spotPrice # oracle.calls[j].spotPrice

(***************************************************************************)
(* Two invocations of simulateLooping with the same arguments: the same     *)
(* input, market snapshot and price map, and providers built alike.  They   *)
(* run in slots 1 and 2, interleaved at the provider awaits, while the      *)
(* clock advances.                                                          *)
(***************************************************************************)
Pair == {1, 2}

PairInputs ==
  { [BaseInput EXCEPT !.loops = loops, !.scenarios = AllScenarios] :
      loops \in 1 .. MaxPoolLoops }

PairProviders(collateralPriceUsd, debtPriceUsd) ==
  { createAmmSwapProvider(0, Int2Num(4), Int2Num(8),
                          collateralPriceUsd, debtPriceUsd),
    createKyberSwapProvider(collateralPriceUsd, debtPriceUsd, 1, 0) }

InitPair ==
  /\ InitShared
  /\ InitQuiet
  /\ \E input \in PairInputs :
       LET priceMap == mergePrices(FixtureSnapshot.defaultPrices, None)
       IN  \E provider \in PairProviders(Get(priceMap["WETHUSD"]),
                                         Get(priceMap["USDCUSD"])) :
             /\ tradesPool(provider) /\ input.loops > 1 =>
                  input.scenarios = <<>>
             /\ run = [r \in Reqs |->
                        IF r \in Pair
                        THEN callRun(input, FixtureSnapshot, priceMap,
                                     provider, None)
                        ELSE IdleRun]

NextPair ==
  \/ Tick
  \/ \E r \in Pair :
       \/ SimEnter(r)
       \/ IterBegin(r)
       \/ IterResume(r)
       \/ IterReject(r)
       \/ SimFinish(r)

SpecPair == InitPair /\ [][NextPair]_vars

(***************************************************************************)
(* C13: determinism.  Two simulateLooping runs given the same input, the    *)
(* same market snapshot and price map and the same sequence of provider     *)
(* responses return identical result objects: summary, time series, stress  *)
(* outcomes, action plan and receipt.provenance_hash.                       *)
(***************************************************************************)
C13_BothReturned ==
  /\ run[1].pc = "done"
  /\ run[2].pc = "done"
  \* the same sequence of provider responses
  /\ run[1].kyberQuotes = run[2].kyberQuotes
  /\ run[1].actionPlan = run[2].actionPlan

C13_Unstamped(result) ==
  [result EXCEPT !.receipt.provenance_hash.timestamp = 0]

ConcurrentInputs ==
  { [BaseInput EXCEPT !.swap_model = SwapModel(0, 4, 8)],
    [BaseInput EXCEPT !.swap_model = SwapModel(10000, 4, 8),
                      !.risk_limits = DefaultLimits],
    [BaseInput EXCEPT !.target_ltv = Fin(3, 5), !.loops = 1,
                      !.swap_model = SwapModel(0, 8, 4)],
    [BaseInput EXCEPT !.loops = 1, !.swap_model = SwapModel(0, 0, 8)] }

ConcurrentBegin(r) ==
  /\ req[r].pc = "idle"
  /\ \E ip \in HandlerIps, input \in ConcurrentInputs :
       LET h == handlerBegin(req[r], buckets, cache, now, ip, None, input)
       IN  /\ buckets' = h.buckets
           /\ req' = [req EXCEPT ![r] = h.req]
  /\ UNCHANGED <<now, cache, run, grants, oracle, kyber, call>>

NextConcurrent ==
  \/ Tick
  \/ \E r \in Pair :
       \/ ConcurrentBegin(r)
       \/ SnapshotLoaded(r)
       \/ SnapshotFailed(r)
       \/ SimEnter(r)
       \/ IterBegin(r)
       \/ IterResume(r)
       \/ IterReject(r)
       \/ SimFinish(r)
       \/ HandlerComplete(r)
       \/ HandlerCatch(r)
       \/ HandlerRelease(r)

SpecConcurrent == Init /\ [][NextConcurrent]_vars

(***************************************************************************)
(* C14: concurrent simulation requests are independent.  When several       *)
(* requests run at once, each with the constant-product provider built from *)
(* its own swap_model, then under every interleaving at the awaits each     *)
(* request's outcome (the result, or the engine's error) equals the one it  *)
(* produces when it runs alone: running totals and pool reserves belong to  *)
(* one invocation.                                                          *)
(***************************************************************************)
\* simulateLooping run to its end without anything else in between, finishing
\* at clock reading t
RECURSIVE C14_RunAlone(_, _)
C14_RunAlone(s, t) ==
  IF s.pc = "called" THEN C14_RunAlone(simEnter(s), t)
  ELSE IF s.pc = "loop"
  THEN IF loopContinues(s) THEN C14_RunAlone(iterBegin(s), t)
       ELSE simFinish(s, t)
  ELSE IF s.pc = "await"
  THEN IF s.pending.quote.err = ""
       THEN C14_RunAlone(iterResume(s, s.pending.quote), t)
       ELSE iterReject(s, s.pending.quote.err)
  ELSE s

\* the engine invocation of the request in slot r, had it been served alone
C14_Alone(r, t) ==
  C14_RunAlone(handlerPrepare([IdleReq EXCEPT !.input = req[r].input],
                              run[r].marketSnapshot).run, t)

C14_Independent ==
  \A r \in Pair :
    /\ run[r].pc = "done" =>
         LET t == Get(run[r].result).receipt.provenance_hash.timestamp
         IN  /\ run[r].result = C14_Alone(r, t).result
             /\ run[r].provider = C14_Alone(r, t).provider
    /\ run[r].pc = "failed" =>
         /\ C14_Alone(r, now).pc = "failed"
         /\ run[r].error = C14_Alone(r, now).error
    /\ req[r].pc = "responded" /\ run[r].pc = "done" =>
         LET t == Get(run[r].result).receipt.provenance_hash.timestamp
         IN  req[r].response =
               handlerComplete([IdleReq EXCEPT !.input = req[r].input],
                               C14_Alone(r, t), cache, t).req.response

\* two requests with different pools are suspended in their provider calls at
\* the same time, one of them with a settled trade behind it
C14_Witness ==
  /\ run[1].pc = "await" /\ run[2].pc = "await"
  /\ run[1].i = 1 /\ run[2].i = 0
  /\ run[1].input # run[2].input
  /\ run[1].provider.reserveDebt # run[2].provider.reserveDebt

(***************************************************************************)
(* C15: stress scenarios are evaluated independently.  The stress list has  *)
(* one outcome per input scenario, in input order; each outcome is the one  *)
(* its scenario gets when it is the only scenario of the run (so adding,    *)
(* removing or reordering other scenarios never changes it); and the base   *)
(* time series and the summary are those of the run without scenarios.      *)
(***************************************************************************)
\* the result of finishing from loop state s at clock reading t with the
\* scenario list replaced
C15_ResultWith(s, scenarios, t) ==
  Get(simFinish([s EXCEPT !.input.scenarios = scenarios], t).result)

C15_Finishes == run[1].pc = "loop" /\ run'[1].pc = "done"

C15_Step ==
  C15_Finishes =>
    LET s == run[1]
        result == Get(run'[1].result)
        scenarios == s.input.scenarios
        bare == C15_ResultWith(s, <<>>, now)
    IN  /\ Len(result.stress) = Len(scenarios)
        /\ \A k \in 1 .. Len(scenarios) :
             LET alone == C15_ResultWith(s, <<scenarios[k]>>, now)
             IN  /\ result.stress[k].scenario[1] = scenarios[k].type
                 /\ result.stress[k] = alone.stress[1]
                 /\ alone.time_series = bare.time_series
                 /\ alone.summary = bare.summary
        /\ result.time_series = bare.time_series
        /\ result.summary = bare.summary

C15_StressIndependent == [][C15_Step]_vars

\* a run with debt finished with the scenarios in another order than
\* AllScenarios lists them, and its price-jump outcome is not the base one
C15_Witness ==
  /\ run[1].pc = "done"
  /\ run[1].input.scenarios = <<AllScenarios[3], AllScenarios[1]>>
  /\ Len(run[1].actionPlan) > 0
  /\ IsFinite(Get(run[1].result).stress[2].min_hf)
  /\ Get(run[1].result).stress[2].min_hf
       # Get(run[1].result).stress[1].min_hf

(***************************************************************************)
(* C16: rate-shift monotonic risk.  For any post-loop state and horizon, a  *)
(* rates_shift scenario with a strictly positive borrow_apr_delta_bps has a *)
(* stress outcome whose min_hf is at most the minimum health factor of the  *)
(* unstressed time series of the same run.  The minimum of a series is the  *)
(* plain minimum over its finite and infinite values, infinite when there   *)
(* is none.                                                                 *)
(***************************************************************************)
RECURSIVE C16_MinHf(_, _)
C16_MinHf(series, k) ==
  IF k > Len(series) THEN PInf
  ELSE LET rest == C16_MinHf(series, k + 1)
       IN  IF ~IsNaN(series[k].hf) /\ Lt(series[k].hf, rest)
           THEN series[k].hf ELSE rest

C16_PositiveShift(scenario) ==
  scenario.type = "rates_shift" /\ scenario.borrow_apr_delta_bps > 0

C16_RateShiftLowersMinHf ==
  run[1].pc = "done" =>
    LET result == Get(run[1].result)
    IN  \A k \in 1 .. Len(result.stress) :
          C16_PositiveShift(run[1].input.scenarios[k]) =>
            Lte(result.stress[k].min_hf, C16_MinHf(result.time_series, 1))

(***************************************************************************)
(* The pure functions called directly, as the unit tests call them: the     *)
(* constant-product quote and the two risk checks.  call holds the last     *)
(* call made: the function, its arguments and what it returned.             *)
(***************************************************************************)
QuoteAmounts ==
  {Int2Num(-1), Zero, Fin(1, 2), One, Int2Num(2), Int2Num(10)}
QuoteReserves == {Zero, One, Int2Num(2), Fin(5, 2)}
QuoteFees == {0, 30, 5000, BPS_DENOMINATOR, 20000}

CallQuote ==
  \E amountIn \in QuoteAmounts, reserveIn \in QuoteReserves :
    \E reserveOut \in QuoteReserves, feeBps \in QuoteFees :
      /\ call' = [fn |-> "getConstantProductQuote",
                  args |-> <<amountIn, reserveIn, reserveOut, feeBps>>,
                  result |-> Some(getConstantProductQuote(
                                    amountIn, reserveIn, reserveOut, feeBps))]
      /\ UNCHANGED <<now, buckets, cache, req, run, grants, oracle, kyber>>

\* the arguments of the pre-check: below, at and above each threshold, and
\* the numbers that are no positive integer
PreCheckLtvs == {NaN, Fin(-1, 10), Zero, Fin(2, 5), Fin(4, 5), Fin(9, 10)}
PreCheckLltvs == {Fin(4, 5)}
PreCheckLoops ==
  {NaN, PInf, Int2Num(-1), Zero, One, Fin(3, 2), Int2Num(2),
   Int2Num(DEFAULT_MAX_LOOPS), Int2Num(DEFAULT_MAX_LOOPS + 1)}
PreCheckMaxLoops == {Int2Num(DEFAULT_MAX_LOOPS), One}

CallPreCheck ==
  \E target_ltv \in PreCheckLtvs, lltv \in PreCheckLltvs :
    \E loops \in PreCheckLoops, maxLoops \in PreCheckMaxLoops :
      LET input == [target_ltv |-> target_ltv, loops |-> loops]
          market == [lltv |-> lltv]
      IN  /\ call' = [fn |-> "preSimulationRiskCheck",
                      args |-> <<input, market, maxLoops>>,
                      result |-> Some(preSimulationRiskCheck(input, market,
                                                             maxLoops))]
          /\ UNCHANGED <<now, buckets, cache, req, run, grants, oracle, kyber>>

\* the payloads of the post-check: a health factor and a leverage below, at
\* and above the limits, infinite and NaN, with each limit given or not
PostCheckHealthFactors == {NaN, PInf, One, Fin(11, 10), Int2Num(2)}
PostCheckLeverages == {NaN, PInf, Int2Num(3), Int2Num(12), Int2Num(13)}
PostCheckMinHealthFactors == {None, Some(Fin(11, 10))}
PostCheckMaxLeverages == {None, Some(Int2Num(12))}

CallPostCheck ==
  \E healthFactor \in PostCheckHealthFactors :
    \E grossLeverage \in PostCheckLeverages :
      \E minHealthFactor \in PostCheckMinHealthFactors :
        \E maxLeverage \in PostCheckMaxLeverages :
          LET payload == [healthFactor |-> healthFactor,
                          grossLeverage |-> grossLeverage,
                          minHealthFactor |-> minHealthFactor,
                          maxLeverage |-> maxLeverage]
          IN  /\ call' = [fn |-> "postSimulationRiskCheck",
                          args |-> <<payload>>,
                          result |-> Some(postSimulationRiskCheck(payload))]
              /\ UNCHANGED <<now, buckets, cache, req, run, grants, oracle,
                             kyber>>

InitUnit ==
  /\ InitShared
  /\ run = [r \in Reqs |-> IdleRun]
  /\ InitQuiet

NextUnit == CallQuote \/ CallPreCheck \/ CallPostCheck

SpecUnit == InitUnit /\ [][NextUnit]_vars

\* the arguments of the claim's quotes: amountIn >= 0, positive reserves and
\* feeBps in [0, 10000)
C17_InDomain(c) ==
  /\ c.fn = "getConstantProductQuote"
  /\ ~IsNegative(c.args[1])
  /\ Gt(c.args[2], Zero) /\ Gt(c.args[3], Zero)
  /\ c.args[4] >= 0 /\ c.args[4] < 10000

C17_AmountInAfterFee(c) ==
  MultipliedBy(c.args[1], Minus(One, Fin(c.args[4], 10000)))

C17_ClosedForm(c) ==
  DividedBy(MultipliedBy(C17_AmountInAfterFee(c), c.args[3]),
            Plus(c.args[2], C17_AmountInAfterFee(c)))

C17_Step ==
  C17_InDomain(call') =>
    LET quote == Get(call'.result)
    IN  /\ quote.err = ""
        /\ quote.amountOut = C17_ClosedForm(call')
        /\ quote.feePaid = Minus(call'.args[1], C17_AmountInAfterFee(call'))
        /\ IsZero(call'.args[1]) =>
             IsZero(quote.amountOut) /\ IsZero(quote.feePaid)
        \* against the quote before it, for the same pool and fee
        /\ /\ C17_InDomain(call)
           /\ call.args[2] = call'.args[2] /\ call.args[3] = call'.args[3]
           /\ call.args[4] = call'.args[4]
           /\ Lt(call.args[1], call'.args[1])
           => Lt(Get(call.result).amountOut, quote.amountOut)

C18_Valid(input, market, maxLoops) ==
  /\ Gt(input.target_ltv, Zero)
  /\ Lt(input.target_ltv, market.lltv)
  /\ IsFinite(input.loops) /\ input.loops.d = 1 /\ input.loops.n > 0
  /\ Lte(input.loops, maxLoops)

\* C18: preSimulationRiskCheck returns ok = true with an empty reasons list
\* exactly when targetLtv > 0, targetLtv < market lltv and loopCount is a
\* positive integer not exceeding the policy maximum (default 10 or the
\* caller's); in every other case ok = false and reasons is non-empty.
C18_OkIffValid ==
  call.fn = "preSimulationRiskCheck" =>
    LET result == Get(call.result)
    IN  /\ result.ok <=> C18_Valid(call.args[1], call.args[2], call.args[3])
        /\ result.ok <=> Len(result.reasons) = 0

\* the places in the reasons list where a reason with this text stands
C19_Reported(result, text) ==
  {i \in 1 .. Len(result.reasons) : result.reasons[i][1] = text}

\* C19: postSimulationRiskCheck reports every violated limit rather than
\* stopping at the first: the reasons hold a health-factor reason if and only
\* if a minimum is supplied and healthFactor < minimum, and a leverage reason
\* if and only if a maximum is supplied and grossLeverage > maximum, so both
\* when both are violated; ok is true if and only if the reasons list is
\* empty; a limit that is not supplied is never reported, whatever the health
\* factor and the leverage are, +infinity included.
C19_ReportsEveryViolation ==
  call.fn = "postSimulationRiskCheck" =>
    LET payload == call.args[1]
        result == Get(call.result)
        hfReasons ==
          C19_Reported(result, "final health factor is below minimum")
        leverageReasons ==
          C19_Reported(result, "gross leverage exceeds maximum")
        hfViolated ==
          /\ IsSome(payload.minHealthFactor)
          /\ Lt(payload.healthFactor, Get(payload.minHealthFactor))
        leverageViolated ==
          /\ IsSome(payload.maxLeverage)
          /\ Gt(payload.grossLeverage, Get(payload.maxLeverage))
    IN  /\ Cardinality(hfReasons) = (IF hfViolated THEN 1 ELSE 0)
        /\ Cardinality(leverageReasons) = (IF leverageViolated THEN 1 ELSE 0)
        /\ Len(result.reasons)
             = Cardinality(hfReasons) + Cardinality(leverageReasons)
        /\ result.ok <=> Len(result.reasons) = 0
        /\ ~IsSome(payload.minHealthFactor) => hfReasons = {}
        /\ ~IsSome(payload.maxLeverage) => leverageReasons = {}

\* both limits were supplied and both are violated, the leverage being
\* +infinity: the check returned the two reasons, health factor first
C19_Witness ==
  /\ call.fn = "postSimulationRiskCheck"
  /\ call.args[1].healthFactor = One
  /\ call.args[1].grossLeverage = PInf
  /\ IsSome(call.args[1].minHealthFactor)
  /\ IsSome(call.args[1].maxLeverage)
  /\ ~Get(call.result).ok
  /\ Len(Get(call.result).reasons) = 2
  /\ Get(call.result).reasons[1][1] = "final health factor is below minimum"
  /\ Get(call.result).reasons[2][1] = "gross leverage exceeds maximum"

(***************************************************************************)
(* The aggregator client, src/adapters/kyber.ts.  Its quote cache is the    *)
(* module-level lru-cache: the entries from the least to the most recently  *)
(* used, each with its key, its value and the time it was set.  A caller is *)
(* idle, waits for the upstream answer (fetching), or holds the outcome of  *)
(* its last call (returned, threw).                                         *)
(***************************************************************************)
\* time-to-live of a cached quote in clock units (KYBER_CACHE_TTL_SECONDS,
\* 30 seconds in the source)
kyberCacheTtl == 2
\* upstream requests after which no caller calls again
MaxKyberRequests == 3
\* max of the LRUCache
KYBER_CACHE_MAX == 256

KyberCallers == {1, 2}

CHAIN_SLUG_MAP == {"base"}

\* String.prototype.toLowerCase on the addresses of the model
toLowerCase(s) ==
  CASE s = "0xAB" -> "0xab"
    [] s = "0xCD" -> "0xcd"
    [] OTHER -> s

\* the parts the key string joins with ":"; amount.toFixed() writes a finite
\* amount out in full, one string per value
buildCacheKey(params) ==
  <<params.chain, toLowerCase(params.tokenIn), toLowerCase(params.tokenOut),
    params.amount,
    IF IsSome(params.slippageBps) THEN ToString(Get(params.slippageBps))
    ELSE "default">>

\* lru-cache: where the entry of a key stands
cacheIndexOf(entries, key) ==
  {i \in 1 .. Len(entries) : entries[i].key = key}

cacheWithout(entries, key) ==
  SelectSeq(entries, LAMBDA entry : entry.key # key)

\* lru-cache get: a stale entry (older than the ttl) is deleted and nothing
\* is returned; a fresh one is returned and becomes the most recently used
cacheGet(entries, key, t) ==
  IF cacheIndexOf(entries, key) = {}
  THEN [value |-> None, entries |-> entries]
  ELSE
    LET entry == entries[CHOOSE i \in cacheIndexOf(entries, key) : TRUE]
    IN  IF t - entry.start > kyberCacheTtl
        THEN [value |-> None, entries |-> cacheWithout(entries, key)]
        ELSE [value |-> Some(entry.value),
              entries |-> Append(cacheWithout(entries, key), entry)]

\* a cache that forgets what it is given
cacheSetDropped(entries, key, value, t) == entries

\* lru-cache set: the entry replaces the one of its key and is the most
\* recently used; beyond max entries the least recently used one goes
cacheSet(entries, key, value, t) ==
  LET added == Append(cacheWithout(entries, key),
                      [key |-> key, value |-> value, start |-> t])
  IN  IF Len(added) > KYBER_CACHE_MAX THEN Tail(added) ELSE added

IdleCaller ==
  [pc |-> "idle", params |-> None, response |-> None, result |-> None,
   error |-> "", sent |-> 0]

\* getKyberQuote up to its await (lines 63-127): the cached quote, the error
\* of an unsupported chain, or the request sent.  [caller, entries]
getKyberQuoteBegin(entries, params, t) ==
  LET cacheKey == buildCacheKey(params)
      cached == cacheGet(entries, cacheKey, t)
      called == [IdleCaller EXCEPT !.params = Some(params)]
  IN  IF IsSome(cached.value)
      THEN [caller |-> [called EXCEPT !.pc = "returned",
                                      !.result = cached.value],
            entries |-> cached.entries]
      ELSE IF params.chain \notin CHAIN_SLUG_MAP
      THEN [caller |-> [called EXCEPT
                          !.pc = "threw",
                          !.error = "Kyber quote unsupported chain"],
            entries |-> cached.entries]
      ELSE [caller |-> [called EXCEPT !.pc = "fetching", !.sent = 1],
            entries |-> cached.entries]

\* getKyberQuote from the answer on (lines 129-150).  [caller, entries]
getKyberQuoteResume(entries, caller, response, t) ==
  LET answered == [caller EXCEPT !.response = Some(response)]
  IN  IF response.failed \/ ~IsSome(response.amountOut)
      THEN [caller |-> [answered EXCEPT
                          !.pc = "threw",
                          !.error = "Kyber quote fetch failed"],
            entries |-> entries]
      ELSE [caller |-> [answered EXCEPT !.pc = "returned",
                                        !.result = response.amountOut],
            entries |-> cacheSet(entries, buildCacheKey(Get(caller.params)),
                                 Get(response.amountOut), t)]

\* one quote request in four spellings (the second differs in case, the third
\* in its options, the fourth leaves the slippage out) and one on a chain the
\* client does not know
KyberBaseParams ==
  [chain |-> "base", tokenIn |-> "0xab", tokenOut |-> "0xcd",
   amount |-> Int2Num(10), slippageBps |-> Some(50), options |-> None]

KyberParams ==
  { KyberBaseParams,
    [KyberBaseParams EXCEPT !.tokenIn = "0xAB", !.tokenOut = "0xCD"],
    [KyberBaseParams EXCEPT !.options = Some("onlyDirectPools")],
    [KyberBaseParams EXCEPT !.slippageBps = None],
    [KyberBaseParams EXCEPT !.chain = "mainnet"] }

\* what axios.get brings back: a failure, a body without
\* routeSummary.amountOut, or a body with it
KyberResponses ==
  { [failed |-> TRUE, amountOut |-> None],
    [failed |-> FALSE, amountOut |-> None],
    [failed |-> FALSE, amountOut |-> Some(Int2Num(7))],
    [failed |-> FALSE, amountOut |-> Some(Int2Num(9))] }

KyberCall(c) ==
  /\ kyber.callers[c].pc # "fetching"
  /\ kyber.requests < MaxKyberRequests
  /\ \E params \in KyberParams :
       LET r == getKyberQuoteBegin(kyber.cache, params, now)
       IN  kyber' = [cache |-> r.entries,
                     callers |-> [kyber.callers EXCEPT ![c] = r.caller],
                     requests |-> kyber.requests + r.caller.sent]
  /\ UNCHANGED <<now, buckets, cache, req, run, grants, oracle, call>>

KyberSettle(c) ==
  /\ kyber.callers[c].pc = "fetching"
  /\ \E response \in KyberResponses :
       LET r == getKyberQuoteResume(kyber.cache, kyber.callers[c], response,
                                    now)
       IN  kyber' = [kyber EXCEPT !.cache = r.entries,
                                  !.callers[c] = r.caller]
  /\ UNCHANGED <<now, buckets, cache, req, run, grants, oracle, call>>

InitKyber ==
  /\ InitShared
  /\ run = [r \in Reqs |-> IdleRun]
  /\ oracle = NoOracle
  /\ call = NoCall
  /\ kyber = [NoKyber EXCEPT !.callers = [c \in KyberCallers |-> IdleCaller]]

NextKyber ==
  \/ Tick
  \/ \E c \in KyberCallers : KyberCall(c)
  \/ \E c \in KyberCallers : KyberSettle(c)

SpecKyber == InitKyber /\ [][NextKyber]_vars

\* the same (chain, tokenIn, tokenOut, amount, slippageBps)
C20_SameRequest(p, q) ==
  /\ p.chain = q.chain
  /\ p.tokenIn = q.tokenIn /\ p.tokenOut = q.tokenOut
  /\ p.amount = q.amount
  /\ p.slippageBps = q.slippageBps

\* caller c completes a fetch in this step
C20_Fetched(c) ==
  kyber.callers[c].pc = "fetching" /\ kyber'.callers[c].pc = "returned"

\* a call that fetched issued one request and left its quote in the cache,
\* as the one entry of its key
C20_FirstCall(c) ==
  C20_Fetched(c) =>
    LET after == kyber'.callers[c]
        key == buildCacheKey(Get(after.params))
    IN  /\ after.sent = 1
        /\ kyber'.requests = kyber.requests
        /\ Cardinality(cacheIndexOf(kyber'.cache, key)) = 1
        /\ \E i \in cacheIndexOf(kyber'.cache, key) :
             /\ kyber'.cache[i].value = Get(after.result)
             /\ kyber'.cache[i].start = now

\* the quote stays in the cache for the TTL unless a later fetch of the same
\* key replaces it
C20_Kept ==
  \A i \in 1 .. Len(kyber.cache) :
    LET entry == kyber.cache[i]
    IN  /\ now' - entry.start <= kyberCacheTtl
        /\ \A d \in KyberCallers :
             C20_Fetched(d) =>
               buildCacheKey(Get(kyber.callers[d].params)) # entry.key
        => \E j \in 1 .. Len(kyber'.cache) : kyber'.cache[j] = entry

\* caller c issues a call in this step after a call with the same request
\* returned a quote that the cache still holds within the TTL: the call
\* returns that quote and sends nothing
C20_SecondCall(c) ==
  LET before == kyber.callers[c]
      after == kyber'.callers[c]
  IN  before.pc # "fetching" /\ after # before =>
        \A a \in KyberCallers :
          LET first == kyber.callers[a]
          IN  /\ first.pc = "returned"
              /\ C20_SameRequest(Get(first.params), Get(after.params))
              /\ \E i \in cacheIndexOf(kyber.cache,
                                       buildCacheKey(Get(first.params))) :
                   /\ kyber.cache[i].value = Get(first.result)
                   /\ now - kyber.cache[i].start <= kyberCacheTtl
              => /\ after.pc = "returned"
                 /\ after.result = first.result
                 /\ after.sent = 0
                 /\ kyber'.requests = kyber.requests
                 /\ Cardinality(cacheIndexOf(
                      kyber'.cache, buildCacheKey(Get(after.params)))) = 1

\* a fetch that fails, or whose answer lacks amountOut, raises and stores
\* nothing
C20_FailedFetch(c) ==
  LET before == kyber.callers[c]
      after == kyber'.callers[c]
  IN  /\ before.pc = "fetching" /\ after.pc # "fetching"
      /\ \/ Get(after.response).failed
         \/ ~IsSome(Get(after.response).amountOut)
      => /\ after.pc = "threw"
         /\ after.error = "Kyber quote fetch failed"
         /\ after.result = None
         /\ kyber'.cache = kyber.cache

C20_Step ==
  /\ C20_Kept
  /\ \A c \in KyberCallers :
       C20_FirstCall(c) /\ C20_SecondCall(c) /\ C20_FailedFetch(c)

\* C20: of two getKyberQuote calls with the same (chain, tokenIn, tokenOut,
\* amount, slippageBps) issued one after the other within the TTL, the first
\* sends one upstream request and leaves its quote in the cache, and the
\* second sends none and returns the cached quote, the cache holding one
\* entry for that key; a fetch that fails or whose response lacks amountOut
\* raises an error and stores nothing in the cache.
C20_QuoteCache == [][C20_Step]_vars

\* caller 1 fetched a quote and caller 2, asking the same after it, was
\* served from the cache: one request upstream, one entry in the cache
C20_Witness ==
  /\ kyber.callers[1].pc = "returned" /\ kyber.callers[1].sent = 1
  /\ kyber.callers[2].pc = "returned" /\ kyber.callers[2].sent = 0
  /\ C20_SameRequest(Get(kyber.callers[1].params),
                     Get(kyber.callers[2].params))
  /\ kyber.callers[2].result = kyber.callers[1].result
  /\ kyber.requests = 1
  /\ Len(kyber.cache) = 1
  /\ now > 0

\* the series a scenario is evaluated on, as the health factor and the USD
\* values of each of its points: the base series with the shocked price from
\* at_day on, or the series rebuilt with the shifted rate or the other lag
C21_Evaluated(s, scenario) ==
  LET result == Get(s.result)
      lltv == s.marketSnapshot.market.lltv
      supplyApr == IF IsSome(s.input.rates.supply_apr)
                   THEN Get(s.input.rates.supply_apr)
                   ELSE s.marketSnapshot.rates.supplyApr
      borrowApr == IF IsSome(s.input.rates.borrow_apr)
                   THEN Get(s.input.rates.borrow_apr)
                   ELSE s.marketSnapshot.rates.borrowApr
      params == [collateralAmount |-> s.runningCollateral,
                 debtAmount |-> s.runningDebt,
                 horizonDays |-> Len(result.time_series) - 1,
                 supplyApr |-> supplyApr, borrowApr |-> borrowApr,
                 collateralPriceUsd |-> s.collateralPriceUsd,
                 debtPriceUsd |-> s.debtPriceUsd,
                 lltv |-> lltv, oracleLagSeconds |-> s.oracleLagSeconds]
      rebuilt ==
        IF scenario.type = "rates_shift"
        THEN buildTimeSeries(
               [params EXCEPT !.borrowApr =
                  Plus(borrowApr, Fin(scenario.borrow_apr_delta_bps, 10000))])
        ELSE IF scenario.type = "oracle_lag"
        THEN buildTimeSeries(
               [params EXCEPT !.oracleLagSeconds = Some(scenario.lag_seconds)])
        ELSE result.time_series
      valued(point) ==
        LET price == IF scenario.type = "price_jump" /\ point.t >= scenario.at_day
                     THEN MultipliedBy(s.collateralPriceUsd,
                                       Plus(One, scenario.shock_pct))
                     ELSE s.collateralPriceUsd
            collateralValueUsd == MultipliedBy(point.collateral, price)
            debtValueUsd == MultipliedBy(point.debt, s.debtPriceUsd)
        IN  [hf |-> IF scenario.type = "price_jump"
                    THEN hfOf(collateralValueUsd, debtValueUsd, lltv)
                    ELSE point.hf,
             shortfall |-> Minus(debtValueUsd,
                                 MultipliedBy(collateralValueUsd, lltv))]
  IN  [k \in 1 .. Len(rebuilt) |-> valued(rebuilt[k])]

\* the first point of an evaluated series whose health factor is hf
C21_FirstAt(points, hf) ==
  CHOOSE k \in 1 .. Len(points) :
    /\ points[k].hf = hf
    /\ \A j \in 1 .. (k - 1) : points[j].hf # hf

C21_OutcomeOk(s, k) ==
  LET outcome == Get(s.result).stress[k]
      points == C21_Evaluated(s, s.input.scenarios[k])
  IN  /\ outcome.liquidated <=> Lt(outcome.min_hf, One)
      /\ ~outcome.liquidated => outcome.liq_loss_usd = None
      /\ outcome.liquidated =>
           /\ \E j \in 1 .. Len(points) : points[j].hf = outcome.min_hf
           /\ LET shortfall ==
                    points[C21_FirstAt(points, outcome.min_hf)].shortfall
              IN  /\ IsSome(outcome.liq_loss_usd) <=> Gt(shortfall, Zero)
                  /\ IsSome(outcome.liq_loss_usd) =>
                       Get(outcome.liq_loss_usd) = shortfall

\* C21: every stress outcome has liquidated = (min_hf < 1); liq_loss_usd is
\* populated only when the outcome is liquidated, and then it is positive and
\* equals debtValueUsd - collateralValueUsd * lltv at the point where the
\* minimum health factor is attained; an outcome that is not liquidated has
\* no liq_loss_usd.
C21_LiquidationLoss ==
  run[1].pc = "done" =>
    \A k \in 1 .. Len(Get(run[1].result).stress) : C21_OutcomeOk(run[1], k)

\* a run whose price-jump outcome is liquidated with a loss estimate taken at
\* the last day, after two lower and lower health factors below 1, and whose
\* oracle-lag outcome is not liquidated
C21_Witness ==
  /\ run[1].pc = "done"
  /\ run[1].input.scenarios = AllScenarios
  /\ LET stress == Get(run[1].result).stress
         points == C21_Evaluated(run[1], AllScenarios[1])
     IN  /\ stress[1].liquidated /\ IsSome(stress[1].liq_loss_usd)
         /\ Gt(Get(stress[1].liq_loss_usd), Zero)
         /\ C21_FirstAt(points, stress[1].min_hf) = Len(points)
         /\ Lt(points[2].hf, One) /\ Lt(points[3].hf, points[2].hf)
         /\ ~stress[3].liquidated /\ stress[3].liq_loss_usd = None

\* (collateralValueUsd * lltv) / debtValueUsd of the post-loop state of a run,
\* +infinity when the debt is zero
C23_PostLoopHf(s) ==
  LET collateralValueUsd == MultipliedBy(s.runningCollateral,
                                         s.collateralPriceUsd)
      debtValueUsd == MultipliedBy(s.runningDebt, s.debtPriceUsd)
  IN  IF IsZero(debtValueUsd) THEN PInf
      ELSE DividedBy(MultipliedBy(collateralValueUsd,
                                  s.marketSnapshot.market.lltv),
                     debtValueUsd)

\* C23: in every successful run, with or without a run-level oracle lag, the
\* first time-series point is the point of day 0 and its health factor equals
\* summary.hf_now, both being (collateralValueUsd * lltv) / debtValueUsd of
\* the post-loop state, or +infinity when the debt is zero.
C23_HfConsistent ==
  run[1].pc = "done" =>
    LET result == Get(run[1].result)
    IN  /\ Len(result.time_series) >= 1
        /\ result.time_series[1].t = 0
        /\ result.time_series[1].hf = result.summary.hf_now
        /\ result.summary.hf_now = C23_PostLoopHf(run[1])

\* a run under a run-level oracle lag that borrowed, with a finite health
\* factor that moves over the series
C23_Witness ==
  /\ run[1].pc = "done"
  /\ IsSome(run[1].oracleLagSeconds)
  /\ Get(run[1].result).summary.loops_done >= 1
  /\ IsFinite(Get(run[1].result).summary.hf_now)
  /\ Gt(Get(run[1].result).summary.hf_now, Zero)
  /\ Get(run[1].result).time_series[2].hf
       # Get(run[1].result).time_series[1].hf

\* no iteration of the run borrowed: the borrow value of the first iteration
\* is zero
C24_ZeroDebt(s) ==
  /\ s.pc \in {"loop", "done", "failed"}
  /\ s.calls = 0
  /\ IsZero(MultipliedBy(MultipliedBy(ParseBigNumber(s.input.start_capital),
                                      s.collateralPriceUsd),
                         DividedBy(s.input.target_ltv,
                                   s.marketSnapshot.market.lltv)))

C24_Step ==
  C24_ZeroDebt(run[1]) /\ run[1].pc = "loop" =>
    /\ run'[1].pc = "done"
    /\ LET result == Get(run'[1].result)
       IN  /\ result.summary.loops_done = 0
           /\ result.action_plan = <<>>
           /\ result.summary.hf_now = PInf
           /\ \A k \in 1 .. Len(result.time_series) :
                result.time_series[k].hf = PInf
           /\ Len(result.stress) = Len(run[1].input.scenarios)
           /\ \A k \in 1 .. Len(result.stress) :
                /\ result.stress[k].min_hf = PInf
                /\ ~result.stress[k].liquidated

SeriesScenarios ==
  << [type |-> "price_jump", asset |-> "WETH", shock_pct |-> Fin(-1, 2),
      at_day |-> 1],
     [type |-> "price_jump", asset |-> "USDC", shock_pct |-> Fin(-1, 2),
      at_day |-> 1],
     [type |-> "price_jump", asset |-> "WETH", shock_pct |-> Fin(-1, 2),
      at_day |-> 40],
     [type |-> "price_jump", asset |-> "WETH", shock_pct |-> Fin(1, 2),
      at_day |-> 0],
     [type |-> "oracle_lag", lag_seconds |-> 0],
     [type |-> "oracle_lag", lag_seconds |-> 1200],
     [type |-> "oracle_lag", lag_seconds |-> SECONDS_PER_DAY],
     [type |-> "oracle_lag", lag_seconds |-> 3 * SECONDS_PER_DAY],
     [type |-> "rates_shift", borrow_apr_delta_bps |-> 36500] >>

\* the horizon left out (30 days) or given
SeriesInputs ==
  { [BaseInput EXCEPT !.start_capital = capital, !.target_ltv = ltv,
                      !.loops = loops, !.horizon_days = horizon,
                      !.scenarios = scenarios] :
      capital \in {"1", "0.5", "0"}, ltv \in {Fin(2, 5), Fin(4, 5)},
      loops \in 1 .. MaxPoolLoops,
      horizon \in {None, Some(1), Some(2), Some(3)},
      scenarios \in {<<>>, SeriesScenarios} }

SeriesLags == {None, Some(0), Some(SECONDS_PER_DAY), Some(2 * SECONDS_PER_DAY)}

InitSeries ==
  /\ InitShared
  /\ InitQuiet
  /\ \E input \in SeriesInputs, lag \in SeriesLags :
       \E provider \in EngineProviders(Int2Num(2), One) :
         /\ provider.kind = "amm" => provider.feeBps = 0
         /\ tradesPool(provider) => input.loops = 1
         /\ run = [r \in Reqs |->
                    IF r = 1
                    THEN callRun(input, FixtureSnapshot,
                                 mergePrices(FixtureSnapshot.defaultPrices, None),
                                 provider, lag)
                    ELSE IdleRun]

SpecSeries == InitSeries /\ [][NextEngine]_vars

\* C22: the time series of every successful run has exactly horizonDays + 1
\* points whose day indices are 0, 1, ..., horizonDays in that order, where
\* horizonDays is input.horizon_days, or 30 when the input leaves it out.
C22_SeriesDays ==
  run[1].pc = "done" =>
    LET series == Get(run[1].result).time_series
        horizonDays == IF run[1].input.horizon_days = None THEN 30
                       ELSE Get(run[1].input.horizon_days)
    IN  /\ Len(series) = horizonDays + 1
        /\ \A k \in 1 .. Len(series) : series[k].t = k - 1

\* a run that left the horizon out has its 31 points, and they differ
C22_Witness ==
  /\ run[1].pc = "done"
  /\ run[1].input.horizon_days = None
  /\ Len(Get(run[1].result).time_series) = 31
  /\ Get(run[1].result).time_series[31].t = 30
  /\ Get(run[1].result).summary.loops_done >= 1
  /\ Get(run[1].result).time_series[31].debt
       # Get(run[1].result).time_series[1].debt

\* the health factors a price jump gives the points of the run's reported
\* series: from the reported collateral and debt of each point, at the
\* collateral price before day atDay and at that price times 1 + shockPct
\* from day atDay on
C26_Shocked(s, shockPct, atDay) ==
  LET series == Get(s.result).time_series
      hfAt(point) ==
        LET price == IF point.t >= atDay
                     THEN MultipliedBy(s.collateralPriceUsd, Plus(One, shockPct))
                     ELSE s.collateralPriceUsd
        IN  hfOf(MultipliedBy(point.collateral, price),
                 MultipliedBy(point.debt, s.debtPriceUsd),
                 s.marketSnapshot.market.lltv)
  IN  [k \in 1 .. Len(series) |-> hfAt(series[k])]

\* the health factors the base series reports
C26_Base(s) ==
  [k \in 1 .. Len(Get(s.result).time_series) |->
     Get(s.result).time_series[k].hf]

\* the plain minimum of health factors, infinite when none is below infinity
C26_MinOf(hfs) ==
  LET below == {hfs[k] : k \in DOMAIN hfs} \ {PInf, NaN}
  IN  IF below = {} THEN PInf
      ELSE CHOOSE v \in below : \A w \in below : Lte(v, w)

\* the reported amounts of the series are the amounts themselves
C26_ReportedExactly(s) ==
  LET result == Get(s.result)
      supplyApr == IF IsSome(s.input.rates.supply_apr)
                   THEN Get(s.input.rates.supply_apr)
                   ELSE s.marketSnapshot.rates.supplyApr
      borrowApr == IF IsSome(s.input.rates.borrow_apr)
                   THEN Get(s.input.rates.borrow_apr)
                   ELSE s.marketSnapshot.rates.borrowApr
  IN  \A k \in 1 .. Len(result.time_series) :
        /\ result.time_series[k].collateral
             = expApr(s.runningCollateral, supplyApr, k - 1)
        /\ result.time_series[k].debt = expApr(s.runningDebt, borrowApr, k - 1)

\* the parts of the statement that do not compare with the base series: the
\* minimum of the shocked health factors, and the asset in the label alone
C26_Walk(s) ==
  LET result == Get(s.result)
      scenarios == s.input.scenarios
      jumps == {k \in 1 .. Len(scenarios) : scenarios[k].type = "price_jump"}
  IN  /\ \A k \in jumps :
           /\ result.stress[k].min_hf
                = C26_MinOf(C26_Shocked(s, scenarios[k].shock_pct,
                                        scenarios[k].at_day))
           /\ result.stress[k].scenario
                = <<"price_jump", scenarios[k].asset, scenarios[k].shock_pct,
                    scenarios[k].at_day>>
           /\ scenarios[k].at_day > Len(result.time_series) - 1 =>
                result.stress[k].min_hf
                  = C26_MinOf(C26_Shocked(s, Zero, 0))
      /\ \A j, k \in jumps :
           /\ scenarios[j].shock_pct = scenarios[k].shock_pct
           /\ scenarios[j].at_day = scenarios[k].at_day
           => /\ result.stress[j].min_hf = result.stress[k].min_hf
              /\ result.stress[j].liquidated = result.stress[k].liquidated
              /\ result.stress[j].liq_loss_usd = result.stress[k].liq_loss_usd

\* a jump past the horizon reports the minimum of the base series
C26_PastHorizonIsBase(s) ==
  LET result == Get(s.result)
      scenarios == s.input.scenarios
  IN  \A k \in 1 .. Len(scenarios) :
        /\ scenarios[k].type = "price_jump"
        /\ scenarios[k].at_day > Len(result.time_series) - 1
        => result.stress[k].min_hf = C26_MinOf(C26_Base(s))

C29_Unlagged(s) ==
  buildTimeSeries(
    [collateralAmount |-> s.runningCollateral,
     debtAmount |-> s.runningDebt,
     horizonDays |-> IF IsSome(s.input.horizon_days)
                     THEN Get(s.input.horizon_days) ELSE 30,
     supplyApr |-> IF IsSome(s.input.rates.supply_apr)
                   THEN Get(s.input.rates.supply_apr)
                   ELSE s.marketSnapshot.rates.supplyApr,
     borrowApr |-> IF IsSome(s.input.rates.borrow_apr)
                   THEN Get(s.input.rates.borrow_apr)
                   ELSE s.marketSnapshot.rates.borrowApr,
     collateralPriceUsd |-> s.collateralPriceUsd,
     debtPriceUsd |-> s.debtPriceUsd,
     lltv |-> s.marketSnapshot.market.lltv,
     oracleLagSeconds |-> None])

\* C29: the oracle lag never changes a price, the spot price being the same
\* at every day: every oracle_lag outcome has the min_hf and the liquidated
\* flag of the base series of its run, and under a run-level lag every point
\* of the series equals the point computed without lag.
C29_LagChangesNothing ==
  run[1].pc = "done" =>
    LET result == Get(run[1].result)
        scenarios == run[1].input.scenarios
        baseMinHf == C26_MinOf(C26_Base(run[1]))
    IN  /\ \A k \in 1 .. Len(scenarios) :
             scenarios[k].type = "oracle_lag" =>
               /\ result.stress[k].min_hf = baseMinHf
               /\ result.stress[k].liquidated = Lt(baseMinHf, One)
        /\ result.time_series = C29_Unlagged(run[1])

\* a run under a lag of two days, so that the oracle holds its price on every
\* other day, with scenario lags of nothing, below a day, a day and three
\* days, whose health factor falls over the horizon
C29_Witness ==
  /\ run[1].pc = "done"
  /\ run[1].oracleLagSeconds = Some(2 * SECONDS_PER_DAY)
  /\ run[1].input.scenarios = SeriesScenarios
  /\ Len(Get(run[1].result).time_series) >= 4
  /\ IsFinite(Get(run[1].result).time_series[1].hf)
  /\ Lt(Get(run[1].result).time_series[4].hf,
        Get(run[1].result).time_series[1].hf)
  /\ Get(run[1].result).stress[8].scenario
       = <<"oracle_lag", 3 * SECONDS_PER_DAY>>
  /\ IsFinite(Get(run[1].result).stress[8].min_hf)

(***************************************************************************)
(* One constant-product provider instance called directly, any number of    *)
(* times up to MaxPoolCalls: createAmmSwapProvider, src/core/looping.ts     *)
(* 514-549.  call.result holds the instance and, per call made, the amount  *)
(* passed, the instance the call found and the quote it settled with.       *)
(***************************************************************************)
MaxPoolCalls == 3

\* fee_bps is any non-negative number and a reserve any non-negative number
\* (SwapModelSpecSchema)
PoolFees == {0, 2500, 5000, BPS_DENOMINATOR, 15000}
PoolReserves == {Zero, One, Int2Num(4)}
PoolAmounts == {Int2Num(-1), Zero, Fin(1, 2), One, Int2Num(2)}

InitPool ==
  /\ InitShared
  /\ run = [r \in Reqs |-> IdleRun]
  /\ oracle = NoOracle
  /\ kyber = NoKyber
  /\ \E feeBps \in PoolFees, poolBaseReserve, poolQuoteReserve \in PoolReserves :
       call = [fn |-> "createAmmSwapProvider",
               args |-> <<feeBps, poolBaseReserve, poolQuoteReserve>>,
               result |-> Some([provider |->
                                  createAmmSwapProvider(
                                    feeBps, poolBaseReserve, poolQuoteReserve,
                                    Int2Num(2), One),
                                calls |-> <<>>])]

\* one call of the instance, awaited
CallPool ==
  /\ Len(Get(call.result).calls) < MaxPoolCalls
  /\ \E amountInDebt \in PoolAmounts :
       LET instance == Get(call.result)
           settled == ammProviderCall(instance.provider, amountInDebt)
       IN  call' = [call EXCEPT !.result =
                      Some([provider |-> settled.provider,
                            calls |-> Append(instance.calls,
                                             [amountInDebt |-> amountInDebt,
                                              found |-> instance.provider,
                                              quote |-> settled.quote])])]
  /\ UNCHANGED <<now, buckets, cache, req, run, grants, oracle, kyber>>

NextPool == CallPool

SpecPool == InitPool /\ [][NextPool]_vars

\* the calls made on the instance, and those among them that settled
C25_Calls == Get(call.result).calls

C25_Settled(k) == C25_Calls[k].quote.err = ""

\* what the settled calls among the first k have put in and taken out
RECURSIVE C25_PutIn(_)
C25_PutIn(k) ==
  IF k = 0 THEN Zero
  ELSE IF C25_Settled(k) THEN Plus(C25_PutIn(k - 1), C25_Calls[k].amountInDebt)
  ELSE C25_PutIn(k - 1)

RECURSIVE C25_TakenOut(_)
C25_TakenOut(k) ==
  IF k = 0 THEN Zero
  ELSE IF C25_Settled(k)
  THEN Plus(C25_TakenOut(k - 1), C25_Calls[k].quote.amountOutCollateral)
  ELSE C25_TakenOut(k - 1)

\* call k is quoted against the pool spec's reserves moved by the calls
\* before it: the debt reserve up by their amountIn, the collateral reserve
\* down by their amountOut
C25_QuotedAgainstLeftReserves ==
  \A k \in 1 .. Len(C25_Calls) :
    LET reserveDebt == Plus(call.args[3], C25_PutIn(k - 1))
        reserveCollateral == Minus(call.args[2], C25_TakenOut(k - 1))
        quote == getConstantProductQuote(C25_Calls[k].amountInDebt, reserveDebt,
                                         reserveCollateral, call.args[1])
    IN  /\ C25_Calls[k].found.reserveDebt = reserveDebt
        /\ C25_Calls[k].found.reserveCollateral = reserveCollateral
        /\ C25_Calls[k].quote.err = quote.err
        /\ C25_Settled(k) =>
             C25_Calls[k].quote.amountOutCollateral = quote.amountOut

\* of two settled calls with the same amountIn the later returns no more
C25_LaterNoMore ==
  \A j, k \in 1 .. Len(C25_Calls) :
    /\ j < k
    /\ C25_Settled(j) /\ C25_Settled(k)
    /\ C25_Calls[j].amountInDebt = C25_Calls[k].amountInDebt
    => Lte(C25_Calls[k].quote.amountOutCollateral,
           C25_Calls[j].quote.amountOutCollateral)

\* C25: the constant-product provider quotes call k against the reserves
\* left by calls 1 .. k-1 of the same instance: a fresh instance starts from
\* the pool spec's reserves, each settled call adds amountIn to reserveDebt
\* and takes the returned amountOut from reserveCollateral, and for equal
\* amountIn a later call never returns more collateral than an earlier one.
C25_PoolThreadsReserves ==
  call.fn = "createAmmSwapProvider" =>
    C25_QuotedAgainstLeftReserves /\ C25_LaterNoMore

\* the instance as call k left it
C30_Left(k) ==
  IF k = Len(C25_Calls) THEN Get(call.result).provider
  ELSE C25_Calls[k + 1].found

C30_Product(provider) ==
  MultipliedBy(provider.reserveDebt, provider.reserveCollateral)

\* the pool spec has strictly positive reserves and a fee in [0, 10000), and
\* every call made passed an amountIn >= 0
C30_InDomain ==
  /\ call.fn = "createAmmSwapProvider"
  /\ call.args[1] >= 0 /\ call.args[1] < BPS_DENOMINATOR
  /\ Gt(call.args[2], Zero) /\ Gt(call.args[3], Zero)
  /\ \A k \in 1 .. Len(C25_Calls) : ~IsNegative(C25_Calls[k].amountInDebt)

C28_Used(bk) ==
  LET bucket == bk[getKey(req'[1].ip, "simulateLooping")]
  IN  IF IsSome(bucket) /\ Get(bucket).reset > now THEN Get(bucket).count
      ELSE 0

C28_Step ==
  C4_Arrives =>
    IF C28_Used(buckets) >= maxRequests
    THEN \* over the limit: the 429, whatever the cache holds
         /\ req'[1].pc = "thrown"
         /\ req'[1].response.kind = "http429"
         /\ ~req'[1].replay
         /\ buckets' = buckets
         /\ cache' = cache
    ELSE \* admitted: one unit of the quota, replay or not
         /\ req'[1].pc # "thrown"
         /\ C28_Used(buckets') = C28_Used(buckets) + 1
         /\ C4_Stored => req'[1].replay

\* C28: rate limiting precedes the idempotency lookup: every request, a
\* replay served from the idempotency cache included, consumes one unit of
\* its caller's quota for the entrypoint, and a request over the limit is
\* rejected with the 429 error, even when a response is stored under its
\* Idempotency-Key.
C28_RateLimitFirst == [][C28_Step]_vars

\* a request rejected with the 429 although a result is stored, unexpired,
\* under its key
C28_Witness ==
  /\ req[1].pc = "thrown"
  /\ req[1].response.kind = "http429"
  /\ req[1].idempotencyKey = Some("k1")
  /\ IsSome(cache["k1"])
  /\ now - Get(cache["k1"]).storedAt <= ttlMs
  /\ IsSome(buckets[getKey(req[1].ip, "simulateLooping")])
  /\ Get(buckets[getKey(req[1].ip, "simulateLooping")]).count = maxRequests

\* a replay that was counted: the second request of the window, answered
\* from the cache, has brought the count to two
C28_ReplayCounted ==
  /\ req[1].pc = "responded"
  /\ req[1].replay
  /\ IsSome(buckets[getKey(req[1].ip, "simulateLooping")])
  /\ Get(buckets[getKey(req[1].ip, "simulateLooping")]).count = 2

(***************************************************************************)
(* Two requests in flight at once, with and without an Idempotency-Key:     *)
(* the handler's await points (the snapshot load, the engine's provider     *)
(* calls) interleave.                                                       *)
(***************************************************************************)
OverlapHeaders == {None, Some("k1")}

\* a pool that trades, and an empty pool, on which the engine throws; a
\* snapshot without a token address gives the error before the engine
OverlapInputs ==
  { [BaseInput EXCEPT !.loops = 1, !.swap_model = SwapModel(0, 4, 8)],
    [BaseInput EXCEPT !.loops = 1, !.swap_model = SwapModel(0, 0, 8)] }

OverlapBegin(r) ==
  /\ req[r].pc = "idle"
  /\ \E ip \in HandlerIps, header \in OverlapHeaders, input \in OverlapInputs :
       LET h == handlerBegin(req[r], buckets, cache, now, ip, header, input)
       IN  /\ buckets' = h.buckets
           /\ req' = [req EXCEPT ![r] = h.req]
  /\ UNCHANGED <<now, cache, run, grants, oracle, kyber, call>>

NextOverlap ==
  \/ Tick
  \/ \E r \in Pair :
       \/ OverlapBegin(r)
       \/ SnapshotLoaded(r)
       \/ SnapshotFailed(r)
       \/ SimEnter(r)
       \/ IterBegin(r)
       \/ IterResume(r)
       \/ IterReject(r)
       \/ SimFinish(r)
       \/ HandlerComplete(r)
       \/ HandlerCatch(r)
       \/ HandlerRelease(r)

SpecOverlap == Init /\ [][NextOverlap]_vars

\* request r arrives with a key under which nothing unexpired is stored, and
\* the rate limiter lets it through
C27_ArrivesOnMiss(r) ==
  /\ req[r].pc = "idle" /\ req'[r].pc # "idle"
  /\ hasIdempotencyKey(req'[r].idempotencyKey)
  /\ LET entry == cache[Get(req'[r].idempotencyKey)]
     IN  ~IsSome(entry) \/ now - Get(entry).storedAt > ttlMs
  /\ enforceRateLimit(buckets, req'[r].ip, "simulateLooping", now).ok

\* request r is answered in this step
C27_Answered(r) ==
  /\ req[r].pc \in {"idle", "loading", "simulating"}
  /\ req'[r].pc \in {"responded", "thrown"}

C27_Step ==
  /\ \A r \in Pair :
       \* a miss at the start sends the request to the snapshot and the
       \* engine, whatever the other request is doing under the same key
       /\ C27_ArrivesOnMiss(r) => req'[r].pc = "loading" /\ ~req'[r].replay
       \* the cache is not read again: a request under way is never answered
       \* from it
       /\ req[r].pc \in {"loading", "simulating"} => ~req'[r].replay
       \* a completed simulation stores its result under the key, over
       \* whatever is there
       /\ /\ req[r].pc = "simulating" /\ C27_Answered(r)
          /\ req'[r].response.kind = "output"
          /\ hasIdempotencyKey(req[r].idempotencyKey)
          => cache' = [cache EXCEPT ![Get(req[r].idempotencyKey)] =
                         Some([value |-> Get(req'[r].response.output),
                               storedAt |-> now])]
       \* an answer that is an error stores nothing
       /\ C27_Answered(r) /\ req'[r].response.kind # "output" => cache' = cache
  \* the cache is written by a completed simulation only
  /\ cache' # cache =>
       \E r \in Pair :
         /\ req[r].pc = "simulating" /\ run[r].pc = "done"
         /\ req'[r].pc = "responded" /\ req'[r].response.kind = "output"

\* C27: the idempotency cache is read once, at the start of a request, and
\* written only after the simulation has completed, with no in-flight
\* marker: a request that misses runs the simulation whatever another request
\* with the same key is doing, so two overlapping requests with one key can
\* both run it, the later store overwriting the earlier; a request that ends
\* in an error stores nothing.
C27_NoInFlightMarker == [][C27_Step]_vars

\* two requests under one key, neither answered from the cache, have both run
\* the engine and called the provider while nothing stored could have
\* expired; their results differ and the cache holds the one stored last
C27_Witness ==
  /\ now <= ttlMs
  /\ \A r \in Pair :
       /\ req[r].pc = "responded"
       /\ req[r].idempotencyKey = Some("k1")
       /\ ~req[r].replay
       /\ req[r].response.kind = "output"
       /\ req[r].engineRuns = 1
       /\ run[r].pc = "done" /\ run[r].calls = 1
  /\ req[1].response.output # req[2].response.output
  /\ cache["k1"] = Some([value |-> Get(req[2].response.output),
                         storedAt |-> now])

\* a request runs the engine under a key while a request that ended in an
\* error under that key has stored nothing
C27_RunsAgainAfterError ==
  /\ req[1].pc = "responded" /\ req[1].response.kind = "error"
  /\ req[1].idempotencyKey = Some("k1")
  /\ req[2].pc = "simulating" /\ req[2].idempotencyKey = Some("k1")
  /\ req[2].engineRuns = 1
  /\ cache["k1"] = None

====
